---- MODULE Spec2Model ----
(***************************************************************************)
(* Azure Pipelines dependency submission: the template graph walker        *)
(* (TemplateResolver), the task catalog (AzureDevOpsClient) and the        *)
(* identifier resolver / version normaliser (DependencyMapper).            *)
(*                                                                         *)
(* Strings are TLA+ strings; the JavaScript string operations the code     *)
(* uses (split, includes, toLowerCase, path.resolve, ...) are computed     *)
(* character by character.                                                 *)
(***************************************************************************)
EXTENDS Integers, Sequences, FiniteSets, TLC

VARIABLES
    \* ---- TemplateResolver (one walk) ----
    resolveTemplates,    \* constructor argument
    githubToken,         \* constructor argument ("" when absent)
    entryFile,           \* argument of resolvePipeline
    fsys,                \* the file system as far as the walk has looked at it
    pc,                  \* "idle" | "walking" | "done"
    stack,               \* call stack of resolvePipelineRecursive / resolveExternal...
    allTasks,            \* accumulator of the walk
    processedFiles,      \* Set<string> of the walk
    externalTemplates,   \* side list of the walk
    walkWarnings,        \* core.warning calls of the walk, in order
    parseLog,            \* history: the files handed to parsePipelineFile, in order
    fetchLog,            \* history: octokit getContent calls, in order
    \* ---- AzureDevOpsClient / DependencyMapper ----
    mpc,                 \* "idle" | "catalog" | "failed" | "mapped"
    listing,             \* what getTaskDefinitions returned
    taskMap,             \* the catalog built by getInstalledTasks
    catalogWarnings,     \* core.warning calls of getInstalledTasks
    tasksIn,             \* argument of createSnapshot
    snapshot,            \* manifests returned by createSnapshot
    mapWarnings,         \* core.warning calls of createSnapshot, in order
    \* ---- PipelineParser (one parsePipelineFile call) ----
    yamlDoc,             \* the document yaml.parseDocument(...).toJSON() gives
    parsedDoc,           \* what parsePipelineFile returned, <<>> before the call
    \* ---- run() of main.ts ----
    useServerParsing,    \* parse-templates-by is 'server'
    rpc,                 \* where run() stands, see RunIdle and the Run... actions
    pipelineFiles,       \* what findPipelineFiles returned
    fileIndex,           \* position of the loop over pipelineFiles
    definitions,         \* what findBuildDefinitionsForFile returned for the file
    defIndex,            \* position of the loop over definitions
    runTasks,            \* allTasks of run()
    runLog,              \* history: the calls run() made to its collaborators
    \* ---- AzureDevOpsClient, marketplace metadata ----
    extensionMetadataCache,  \* Map<string, ExtensionMetadata> of the client
    metaCalls,           \* the calls made on the client, each with where it stands
    marketplaceLog       \* history: the cache keys of the galleryApi.getExtension calls

walkVars == <<resolveTemplates, githubToken, entryFile, fsys, pc, stack, allTasks,
              processedFiles, externalTemplates, walkWarnings, parseLog, fetchLog>>
mapVars == <<mpc, listing, taskMap, catalogWarnings, tasksIn, snapshot, mapWarnings>>
parseVars == <<yamlDoc, parsedDoc>>
runVars == <<useServerParsing, rpc, pipelineFiles, fileIndex, definitions, defIndex,
             runTasks, runLog>>
metaVars == <<extensionMetadataCache, metaCalls, marketplaceLog>>
vars == <<walkVars, mapVars, parseVars, runVars, metaVars>>

\* what the steps of one component leave alone
OutsideWalk == <<mapVars, parseVars, runVars, metaVars>>
OutsideMap == <<walkVars, parseVars, runVars, metaVars>>
OutsideParse == <<walkVars, mapVars, runVars, metaVars>>
OutsideMetadata == <<walkVars, mapVars, parseVars, runVars>>

\* JavaScript's undefined, for optional string fields.
undefined == "<undefined>"

----------------------------------------------------------------------------
(* String primitives *)

Ch(s, i) == SubSeq(s, i, i)

RECURSIVE IndexFrom(_, _, _)
\* least index >= i at which the one-character string c occurs in s, else 0
IndexFrom(s, c, i) ==
    IF i > Len(s) THEN 0
    ELSE IF Ch(s, i) = c THEN i
    ELSE IndexFrom(s, c, i + 1)

\* String.prototype.includes for a one-character needle
Includes(s, c) == IndexFrom(s, c, 1) # 0

RECURSIVE Split(_, _)
\* String.prototype.split for a one-character separator
Split(s, c) ==
    LET i == IndexFrom(s, c, 1)
    IN  IF i = 0 THEN <<s>>
        ELSE <<SubSeq(s, 1, i - 1)>> \o Split(SubSeq(s, i + 1, Len(s)), c)

RECURSIVE Join(_, _)
\* Array.prototype.join
Join(parts, c) ==
    IF Len(parts) = 0 THEN ""
    ELSE IF Len(parts) = 1 THEN parts[1]
    ELSE parts[1] \o c \o Join(Tail(parts), c)

StartsWith(s, p) == Len(s) >= Len(p) /\ SubSeq(s, 1, Len(p)) = p

LowerChar(c) ==
    CASE c = "A" -> "a" [] c = "B" -> "b" [] c = "C" -> "c" [] c = "D" -> "d"
      [] c = "E" -> "e" [] c = "F" -> "f" [] c = "G" -> "g" [] c = "H" -> "h"
      [] c = "I" -> "i" [] c = "J" -> "j" [] c = "K" -> "k" [] c = "L" -> "l"
      [] c = "M" -> "m" [] c = "N" -> "n" [] c = "O" -> "o" [] c = "P" -> "p"
      [] c = "Q" -> "q" [] c = "R" -> "r" [] c = "S" -> "s" [] c = "T" -> "t"
      [] c = "U" -> "u" [] c = "V" -> "v" [] c = "W" -> "w" [] c = "X" -> "x"
      [] c = "Y" -> "y" [] c = "Z" -> "z" [] OTHER -> c

RECURSIVE ToLowerCase(_)
ToLowerCase(s) ==
    IF Len(s) = 0 THEN "" ELSE LowerChar(Ch(s, 1)) \o ToLowerCase(SubSeq(s, 2, Len(s)))

RECURSIVE ReplaceAll(_, _, _)
\* s.replace(/c/g, d) for one-character c
ReplaceAll(s, c, d) ==
    IF Len(s) = 0 THEN ""
    ELSE (IF Ch(s, 1) = c THEN d ELSE Ch(s, 1)) \o ReplaceAll(SubSeq(s, 2, Len(s)), c, d)

----------------------------------------------------------------------------
(* node:path, POSIX flavour, on absolute paths *)

RECURSIVE NormalizeSegs(_, _)
\* fold the segments of a path onto `acc`: "" and "." are dropped, ".." pops
NormalizeSegs(segs, acc) ==
    IF Len(segs) = 0 THEN acc
    ELSE LET s == Head(segs)
         IN  IF s = "" \/ s = "." THEN NormalizeSegs(Tail(segs), acc)
             ELSE IF s = ".."
                  THEN NormalizeSegs(Tail(segs),
                                     IF Len(acc) = 0 THEN acc
                                     ELSE SubSeq(acc, 1, Len(acc) - 1))
             ELSE NormalizeSegs(Tail(segs), Append(acc, s))

\* the segments of an absolute path
PathSegs(p) == NormalizeSegs(Split(p, "/"), <<>>)

PathOf(segs) == "/" \o Join(segs, "/")

\* path.dirname of an absolute path
PathDirname(p) ==
    LET segs == Split(p, "/")
        d == Join(SubSeq(segs, 1, Len(segs) - 1), "/")
    IN  IF d = "" THEN "/" ELSE d

\* path.basename
PathBasename(p) == LET segs == Split(p, "/") IN segs[Len(segs)]

\* path.resolve(dir, rel) for an absolute dir
PathResolve(dir, rel) ==
    IF StartsWith(rel, "/") THEN PathOf(PathSegs(rel))
    ELSE PathOf(NormalizeSegs(Split(rel, "/"), PathSegs(dir)))

\* path.join(a, b) for an absolute a
PathJoin(a, b) == PathOf(NormalizeSegs(Split(b, "/"), PathSegs(a)))

RECURSIVE CommonPrefixLen(_, _)
CommonPrefixLen(a, b) ==
    IF Len(a) = 0 \/ Len(b) = 0 \/ Head(a) # Head(b) THEN 0
    ELSE 1 + CommonPrefixLen(Tail(a), Tail(b))

\* path.relative(from, to) for absolute paths
PathRelative(from, to) ==
    LET f == PathSegs(from)
        t == PathSegs(to)
        k == CommonPrefixLen(f, t)
    IN  Join([i \in 1..(Len(f) - k) |-> ".."] \o SubSeq(t, k + 1, Len(t)), "/")

----------------------------------------------------------------------------
(* Bounds and input domains of the template walk *)

MaxRefs == 4          \* template/extends references in all files read, together
MaxTemplates == 2     \* template references in one file

workspaceRoot == "/w"

EntryFiles == {"/w/a.yml"}

\* the paths at which a local file may exist
LocalFiles == {"/w/a.yml", "/w/b.yml", "/w/c.yml", "/w/t/d.yml"}

\* what a document may give as the path of a local template
LocalTemplatePaths == {"a.yml", "b.yml", "c.yml", "t/d.yml", "../a.yml"}

\* what a document may give as the path of its extends template
ExtendsPaths == {"t/d.yml"}

ParsedTask(id, ver) == [taskIdentifier |-> id, taskVersion |-> ver, sourceFile |-> undefined]

ParsedTemplate(p, r) == [path |-> p, repository |-> r, ref |-> undefined]

LocalTemplates == {ParsedTemplate(p, undefined) : p \in LocalTemplatePaths}

ExternalTemplateRefs ==
    {ParsedTemplate("ci/steps.yml", "org/tpl"), ParsedTemplate("steps.yml", "tpl")}

TaskLists ==
    {<<ParsedTask("Npm", undefined), ParsedTask("PowerShell", "2")>>}

\* File contents: what existsSync and parsePipelineFile make of a path
Missing == [kind |-> "missing", tasks |-> <<>>, extends |-> <<>>, templates |-> <<>>]
Unparseable == [kind |-> "bad", tasks |-> <<>>, extends |-> <<>>, templates |-> <<>>]
ParsedPipeline(ts, e, tm) == [kind |-> "yaml", tasks |-> ts, extends |-> e, templates |-> tm]

NumRefs(doc) == Len(doc.extends) + Len(doc.templates)

RECURSIVE SumRefs(_, _)
SumRefs(f, ps) ==
    IF ps = {} THEN 0
    ELSE LET p == CHOOSE q \in ps : TRUE IN NumRefs(f[p]) + SumRefs(f, ps \ {p})

\* references still allowed in a file read now
RefsLeft == MaxRefs - SumRefs(fsys, DOMAIN fsys)

Min(a, b) == IF a < b THEN a ELSE b

\* the documents a file read now may hold; `refs` are its possible template entries
YamlDocs(refs) ==
    LET k == RefsLeft
    IN  {d \in {ParsedPipeline(ts, e, tm) :
                  ts \in TaskLists,
                  e \in {<<>>} \cup {<<ParsedTemplate(p, undefined)>> : p \in ExtendsPaths},
                  tm \in UNION {[1..m -> refs] : m \in 0..Min(MaxTemplates, k)}} :
           NumRefs(d) <= k}

\* what a look at path p may find: a path looked at before is as it was found
Contents(p, refs) ==
    IF p \in DOMAIN fsys THEN {fsys[p]}
    ELSE IF p \in LocalFiles THEN {Missing, Unparseable} \cup YamlDocs(refs)
    ELSE {Missing}

WithFile(p, c) == [q \in DOMAIN fsys \cup {p} |-> IF q = p THEN c ELSE fsys[q]]

----------------------------------------------------------------------------
(* TemplateResolver *)

NoExternal == [owner |-> "", repo |-> "", path |-> "", ref |-> ""]

\* a pending call of resolvePipelineRecursive(filePath, ...)
CallFrame(p) ==
    [op |-> "call", filePath |-> p, parsed |-> Missing, i |-> 0,
     template |-> ParsedTemplate("", undefined), ext |-> NoExternal]

\* resolveExternalTemplateReference awaiting octokit.rest.repos.getContent
FetchFrame(t, e) ==
    [op |-> "fetch", filePath |-> "", parsed |-> Missing, i |-> 0,
     template |-> t, ext |-> e]

Top == stack[Len(stack)]
Pop == SubSeq(stack, 1, Len(stack) - 1)
ReplaceTop(f) == Append(Pop, f)

Warning(m, a) == [message |-> m, arg |-> a]

\* JavaScript truthiness of an optional string
Truthy(s) == s # undefined /\ s # ""

\* where the walk stands: the pending step of the innermost call
AtCall == pc = "walking" /\ Len(stack) > 0 /\ Top.op = "call"
AtExtends == pc = "walking" /\ Len(stack) > 0 /\ Top.op = "extends"
AtTemplate ==
    /\ pc = "walking" /\ Len(stack) > 0 /\ Top.op = "templates"
    /\ Top.i <= Len(Top.parsed.templates)
AtEndOfTemplates ==
    /\ pc = "walking" /\ Len(stack) > 0 /\ Top.op = "templates"
    /\ Top.i > Len(Top.parsed.templates)
AtFetch == pc = "walking" /\ Len(stack) > 0 /\ Top.op = "fetch"
AtReturn == pc = "walking" /\ Len(stack) = 0

\* PipelineFileDiscovery.resolveTemplatePath
resolveTemplatePath(pipelineFile, relativePath) ==
    PathResolve(PathDirname(pipelineFile), relativePath)

\* the sourceFile tag of the tasks of filePath
RelativePath(filePath) == ReplaceAll(PathRelative(workspaceRoot, filePath), "\\", "/")

\* a slip: the tag is the file name without its directory
TagTasksBasename(ts, filePath) ==
    [n \in 1..Len(ts) |-> [ts[n] EXCEPT !.sourceFile = PathBasename(filePath)]]

TagTasks(ts, filePath) ==
    [n \in 1..Len(ts) |-> [ts[n] EXCEPT !.sourceFile = RelativePath(filePath)]]

\* the temporary file an external template is written to
TempFile(e) ==
    PathJoin(PathJoin(workspaceRoot, ".azure-pipelines-temp"),
             e.owner \o "-" \o e.repo \o "-" \o PathBasename(e.path))

ExternalKey(e) == "external:" \o e.owner \o "/" \o e.repo \o "/" \o e.path

\* new TemplateResolver(...) and resolvePipeline(entry) up to its recursive call
ResolvePipeline(entry) ==
    /\ pc = "idle"
    /\ pc' = "walking"
    /\ stack' = <<CallFrame(entry)>>
    /\ allTasks' = <<>>
    /\ processedFiles' = {}
    /\ externalTemplates' = <<>>
    /\ entryFile' = entry
    /\ UNCHANGED <<resolveTemplates, githubToken, fsys, walkWarnings, parseLog, fetchLog>>

\* resolvePipelineRecursive: the file was processed before
SkipProcessed ==
    /\ AtCall
    /\ Top.filePath \in processedFiles
    /\ stack' = Pop
    /\ UNCHANGED <<resolveTemplates, githubToken, entryFile, fsys, pc, allTasks, processedFiles,
                   externalTemplates, walkWarnings, parseLog, fetchLog>>

\* a slip: the missing file aborts the walk instead of returning to the caller
FileNotFoundAborts ==
    /\ AtCall
    /\ Top.filePath \notin processedFiles
    /\ Missing \in Contents(Top.filePath, {})
    /\ fsys' = WithFile(Top.filePath, Missing)
    /\ walkWarnings' = Append(walkWarnings, Warning("Template file not found", Top.filePath))
    /\ stack' = <<>>
    /\ UNCHANGED <<resolveTemplates, githubToken, entryFile, pc, allTasks, processedFiles,
                   externalTemplates, parseLog, fetchLog>>

\* resolvePipelineRecursive: fs.existsSync(filePath) is false
FileNotFound ==
    /\ AtCall
    /\ Top.filePath \notin processedFiles
    /\ Missing \in Contents(Top.filePath, {})
    /\ fsys' = WithFile(Top.filePath, Missing)
    /\ walkWarnings' = Append(walkWarnings, Warning("Template file not found", Top.filePath))
    /\ stack' = Pop
    /\ UNCHANGED <<resolveTemplates, githubToken, entryFile, pc, allTasks, processedFiles,
                   externalTemplates, parseLog, fetchLog>>

\* resolvePipelineRecursive: the file exists and parsePipelineFile throws
ParseFails ==
    /\ AtCall
    /\ Top.filePath \notin processedFiles
    /\ Unparseable \in Contents(Top.filePath, {})
    /\ fsys' = WithFile(Top.filePath, Unparseable)
    /\ processedFiles' = processedFiles \cup {Top.filePath}
    /\ parseLog' = Append(parseLog, Top.filePath)
    /\ walkWarnings' = Append(walkWarnings, Warning("Failed to process file", Top.filePath))
    /\ stack' = Pop
    /\ UNCHANGED <<resolveTemplates, githubToken, entryFile, pc, allTasks, externalTemplates, fetchLog>>

\* a slip: the file is parsed without being added to processedFiles
ParseFileUnmarked(refs) ==
    /\ AtCall
    /\ Top.filePath \notin processedFiles
    /\ \E parsed \in {c \in Contents(Top.filePath, refs) : c.kind = "yaml"} :
         /\ fsys' = WithFile(Top.filePath, parsed)
         /\ parseLog' = Append(parseLog, Top.filePath)
         /\ allTasks' = allTasks \o TagTasks(parsed.tasks, Top.filePath)
         /\ stack' = IF ~resolveTemplates THEN Pop
                     ELSE ReplaceTop([Top EXCEPT !.op = "extends", !.parsed = parsed])
    /\ UNCHANGED <<resolveTemplates, githubToken, entryFile, pc, processedFiles,
                   externalTemplates, walkWarnings, fetchLog>>

\* a slip: the references are followed whether or not resolution is enabled
ParseFileFollowsTemplates(refs) ==
    /\ AtCall
    /\ Top.filePath \notin processedFiles
    /\ \E parsed \in {c \in Contents(Top.filePath, refs) : c.kind = "yaml"} :
         /\ fsys' = WithFile(Top.filePath, parsed)
         /\ processedFiles' = processedFiles \cup {Top.filePath}
         /\ parseLog' = Append(parseLog, Top.filePath)
         /\ allTasks' = allTasks \o TagTasks(parsed.tasks, Top.filePath)
         /\ stack' = ReplaceTop([Top EXCEPT !.op = "extends", !.parsed = parsed])
    /\ UNCHANGED <<resolveTemplates, githubToken, entryFile, pc, externalTemplates, walkWarnings, fetchLog>>

\* a slip: the tasks of a file are put in front of the list
ParseFilePrepends(refs) ==
    /\ AtCall
    /\ Top.filePath \notin processedFiles
    /\ \E parsed \in {c \in Contents(Top.filePath, refs) : c.kind = "yaml"} :
         /\ fsys' = WithFile(Top.filePath, parsed)
         /\ processedFiles' = processedFiles \cup {Top.filePath}
         /\ parseLog' = Append(parseLog, Top.filePath)
         /\ allTasks' = TagTasks(parsed.tasks, Top.filePath) \o allTasks
         /\ stack' = IF ~resolveTemplates THEN Pop
                     ELSE ReplaceTop([Top EXCEPT !.op = "extends", !.parsed = parsed])
    /\ UNCHANGED <<resolveTemplates, githubToken, entryFile, pc, externalTemplates, walkWarnings, fetchLog>>

\* resolvePipelineRecursive: the file exists and parses; its tasks are added
ParseFile(refs) ==
    /\ AtCall
    /\ Top.filePath \notin processedFiles
    /\ \E parsed \in {c \in Contents(Top.filePath, refs) : c.kind = "yaml"} :
         /\ fsys' = WithFile(Top.filePath, parsed)
         /\ processedFiles' = processedFiles \cup {Top.filePath}
         /\ parseLog' = Append(parseLog, Top.filePath)
         /\ allTasks' = allTasks \o TagTasks(parsed.tasks, Top.filePath)
         /\ stack' = IF ~resolveTemplates THEN Pop
                     ELSE ReplaceTop([Top EXCEPT !.op = "extends", !.parsed = parsed])
    /\ UNCHANGED <<resolveTemplates, githubToken, entryFile, pc, externalTemplates, walkWarnings, fetchLog>>

\* resolvePipelineRecursive: the extends template, when there is one
ProcessExtends ==
    /\ AtExtends
    /\ LET next == [Top EXCEPT !.op = "templates", !.i = 1]
       IN  stack' = IF Len(Top.parsed.extends) > 0
                    THEN Append(ReplaceTop(next),
                                CallFrame(resolveTemplatePath(Top.filePath,
                                                              Top.parsed.extends[1].path)))
                    ELSE ReplaceTop(next)
    /\ UNCHANGED <<resolveTemplates, githubToken, entryFile, fsys, pc, allTasks, processedFiles,
                   externalTemplates, walkWarnings, parseLog, fetchLog>>

CurrentTemplate == Top.parsed.templates[Top.i]
Advanced == [Top EXCEPT !.i = Top.i + 1]

\* resolvePipelineRecursive: the next template reference is local
ProcessLocalTemplate ==
    /\ AtTemplate
    /\ ~Truthy(CurrentTemplate.repository)
    /\ stack' = Append(ReplaceTop(Advanced),
                       CallFrame(resolveTemplatePath(Top.filePath, CurrentTemplate.path)))
    /\ UNCHANGED <<resolveTemplates, githubToken, entryFile, fsys, pc, allTasks, processedFiles,
                   externalTemplates, walkWarnings, parseLog, fetchLog>>

\* a slip: without a token the rest of the file's references is given up
ExternalNoTokenStops ==
    /\ AtTemplate
    /\ Truthy(CurrentTemplate.repository)
    /\ githubToken = ""
    /\ walkWarnings' = Append(walkWarnings,
                              Warning("No GitHub token provided", CurrentTemplate.path))
    /\ stack' = ReplaceTop([Top EXCEPT !.i = Len(Top.parsed.templates) + 1])
    /\ UNCHANGED <<resolveTemplates, githubToken, entryFile, fsys, pc, allTasks, processedFiles,
                   externalTemplates, parseLog, fetchLog>>

\* resolveExternalTemplateReference: no GitHub token
ExternalNoToken ==
    /\ AtTemplate
    /\ Truthy(CurrentTemplate.repository)
    /\ githubToken = ""
    /\ walkWarnings' = Append(walkWarnings,
                              Warning("No GitHub token provided", CurrentTemplate.path))
    /\ stack' = ReplaceTop(Advanced)
    /\ UNCHANGED <<resolveTemplates, githubToken, entryFile, fsys, pc, allTasks, processedFiles,
                   externalTemplates, parseLog, fetchLog>>

\* resolveExternalTemplateReference: the repository is an alias
ExternalAlias ==
    /\ AtTemplate
    /\ Truthy(CurrentTemplate.repository)
    /\ githubToken # ""
    /\ ~Includes(CurrentTemplate.repository, "/")
    /\ walkWarnings' = Append(walkWarnings,
                              Warning("Cannot resolve repository alias",
                                      CurrentTemplate.repository))
    /\ stack' = ReplaceTop(Advanced)
    /\ UNCHANGED <<resolveTemplates, githubToken, entryFile, fsys, pc, allTasks, processedFiles,
                   externalTemplates, parseLog, fetchLog>>

\* a slip: the download starts without the reference being tracked
ExternalFetchUntracked ==
    /\ AtTemplate
    /\ Truthy(CurrentTemplate.repository)
    /\ githubToken # ""
    /\ Includes(CurrentTemplate.repository, "/")
    /\ LET parts == Split(CurrentTemplate.repository, "/")
           e == [owner |-> parts[1], repo |-> parts[2], path |-> CurrentTemplate.path,
                 ref |-> IF Truthy(CurrentTemplate.ref) THEN CurrentTemplate.ref
                         ELSE "refs/heads/main"]
       IN  stack' = Append(ReplaceTop(Advanced), FetchFrame(CurrentTemplate, e))
    /\ UNCHANGED <<resolveTemplates, githubToken, entryFile, fsys, pc, allTasks, processedFiles,
                   externalTemplates, walkWarnings, parseLog, fetchLog>>

\* resolveExternalTemplateReference: owner/repo; tracked, then the download starts
ExternalTrack ==
    /\ AtTemplate
    /\ Truthy(CurrentTemplate.repository)
    /\ githubToken # ""
    /\ Includes(CurrentTemplate.repository, "/")
    /\ LET parts == Split(CurrentTemplate.repository, "/")
           e == [owner |-> parts[1], repo |-> parts[2], path |-> CurrentTemplate.path,
                 ref |-> IF Truthy(CurrentTemplate.ref) THEN CurrentTemplate.ref
                         ELSE "refs/heads/main"]
       IN  /\ externalTemplates' = Append(externalTemplates, e)
           /\ stack' = Append(ReplaceTop(Advanced), FetchFrame(CurrentTemplate, e))
    /\ UNCHANGED <<resolveTemplates, githubToken, entryFile, fsys, pc, allTasks, processedFiles,
                   walkWarnings, parseLog, fetchLog>>

\* the getContent request of the pending download
FetchRequest ==
    [owner |-> Top.ext.owner, repo |-> Top.ext.repo, path |-> Top.template.path,
     ref |-> IF StartsWith(Top.ext.ref, "refs/heads/")
             THEN SubSeq(Top.ext.ref, Len("refs/heads/") + 1, Len(Top.ext.ref))
             ELSE Top.ext.ref]

\* resolveExternalTemplateReference: getContent throws
FetchThrows ==
    /\ AtFetch
    /\ fetchLog' = Append(fetchLog, FetchRequest)
    /\ walkWarnings' = Append(walkWarnings,
                              Warning("Failed to resolve external template", Top.template.path))
    /\ stack' = Pop
    /\ UNCHANGED <<resolveTemplates, githubToken, entryFile, fsys, pc, allTasks, processedFiles,
                   externalTemplates, parseLog>>

\* resolveExternalTemplateReference: getContent returns something that is no file
FetchNotFile ==
    /\ AtFetch
    /\ fetchLog' = Append(fetchLog, FetchRequest)
    /\ walkWarnings' = Append(walkWarnings,
                              Warning("External template is not a file", Top.template.path))
    /\ stack' = Pop
    /\ UNCHANGED <<resolveTemplates, githubToken, entryFile, fsys, pc, allTasks, processedFiles,
                   externalTemplates, parseLog>>

\* resolveExternalTemplateReference: getContent returns a file; it is written to
\* the temporary file and walked unless its external key was seen before
FetchFile(refs) ==
    /\ AtFetch
    /\ fetchLog' = Append(fetchLog, FetchRequest)
    /\ \E content \in {Unparseable} \cup YamlDocs(refs) :
         fsys' = WithFile(TempFile(Top.ext), content)
    /\ IF ExternalKey(Top.ext) \in processedFiles
       THEN /\ stack' = Pop
            /\ UNCHANGED processedFiles
       ELSE /\ processedFiles' = processedFiles \cup {ExternalKey(Top.ext)}
            /\ stack' = ReplaceTop(CallFrame(TempFile(Top.ext)))
    /\ UNCHANGED <<resolveTemplates, githubToken, entryFile, pc, allTasks, externalTemplates,
                   walkWarnings, parseLog>>

\* resolvePipelineRecursive: all template references of the file are done
FinishFile ==
    /\ AtEndOfTemplates
    /\ stack' = Pop
    /\ UNCHANGED <<resolveTemplates, githubToken, entryFile, fsys, pc, allTasks, processedFiles,
                   externalTemplates, walkWarnings, parseLog, fetchLog>>

\* resolvePipeline returns {tasks, processedFiles, externalTemplates}
ReturnResolved ==
    /\ AtReturn
    /\ pc' = "done"
    /\ UNCHANGED <<resolveTemplates, githubToken, entryFile, fsys, stack, allTasks, processedFiles,
                   externalTemplates, walkWarnings, parseLog, fetchLog>>

----------------------------------------------------------------------------
(* The walk as a specification *)

EmptyMap == [k \in {} |-> undefined]

\* A JavaScript Map (or object): the keys in insertion order and their values
NewMap == [keys |-> <<>>, vals |-> EmptyMap]

MapIdle ==
    /\ mpc = "idle"
    /\ listing = <<>>
    /\ taskMap = NewMap
    /\ catalogWarnings = <<>>
    /\ tasksIn = <<>>
    /\ snapshot = EmptyMap
    /\ mapWarnings = <<>>

ParseIdle ==
    /\ yamlDoc = <<>>
    /\ parsedDoc = <<>>

WalkIdle ==
    /\ entryFile = undefined
    /\ fsys = EmptyMap
    /\ pc = "idle"
    /\ stack = <<>>
    /\ allTasks = <<>>
    /\ processedFiles = {}
    /\ externalTemplates = <<>>
    /\ walkWarnings = <<>>
    /\ parseLog = <<>>
    /\ fetchLog = <<>>

\* run() has not started
RunIdle ==
    /\ rpc = "start"
    /\ pipelineFiles = <<>>
    /\ fileIndex = 0
    /\ definitions = <<>>
    /\ defIndex = 0
    /\ runTasks = <<>>
    /\ runLog = <<>>

\* no marketplace metadata was asked for
MetadataIdle ==
    /\ extensionMetadataCache = EmptyMap
    /\ metaCalls = <<>>
    /\ marketplaceLog = <<>>

\* a component used on its own, outside run()
NoRun == useServerParsing = FALSE /\ RunIdle

\* The walk over local files, as main.ts runs it: no GitHub token is passed
InitWalk ==
    /\ resolveTemplates \in BOOLEAN
    /\ githubToken = ""
    /\ WalkIdle
    /\ MapIdle
    /\ ParseIdle
    /\ MetadataIdle
    /\ NoRun

NextWalk ==
    \/ (\E entry \in EntryFiles : ResolvePipeline(entry)) /\ UNCHANGED OutsideWalk
    \/ SkipProcessed /\ UNCHANGED OutsideWalk
    \/ FileNotFound /\ UNCHANGED OutsideWalk
    \/ ParseFails /\ UNCHANGED OutsideWalk
    \/ ParseFile(LocalTemplates) /\ UNCHANGED OutsideWalk
    \/ ProcessExtends /\ UNCHANGED OutsideWalk
    \/ ProcessLocalTemplate /\ UNCHANGED OutsideWalk
    \/ FinishFile /\ UNCHANGED OutsideWalk
    \/ ReturnResolved /\ UNCHANGED OutsideWalk

SpecWalk == InitWalk /\ [][NextWalk]_vars

----------------------------------------------------------------------------
(* Properties of the walk over local files *)

A == "/w/a.yml"
B == "/w/b.yml"
C == "/w/c.yml"
D == "/w/t/d.yml"

Count(seq, x) == Cardinality({n \in DOMAIN seq : seq[n] = x})

Known(p) == p \in DOMAIN fsys
IsYaml(p) == Known(p) /\ fsys[p].kind = "yaml"
Fails(p) == Known(p) /\ fsys[p].kind \in {"missing", "bad"}

\* the files the references of p point at: the extends first, then the templates
Targets(p) ==
    [n \in 1..NumRefs(fsys[p]) |->
        resolveTemplatePath(p, (fsys[p].extends \o fsys[p].templates)[n].path)]

TargetSet(p) == {Targets(p)[n] : n \in DOMAIN Targets(p)}

RECURSIVE ReachFrom(_)
ReachFrom(R) ==
    LET N == R \cup UNION {TargetSet(p) : p \in {q \in R : IsYaml(q)}}
    IN  IF N = R THEN R ELSE ReachFrom(N)

\* the files reachable from the entry through extends and template references
Reachable == IF resolveTemplates THEN ReachFrom({entryFile}) ELSE {entryFile}

\* the workspace-relative path of a file under the workspace root
WorkspaceRelative(p) == SubSeq(p, Len(workspaceRoot) + 2, Len(p))

\* the tasks of the result that carry the tag r, in order
TasksTagged(r) == SelectSeq(allTasks, LAMBDA t : t.sourceFile = r)

\* the tasks of file p as the result must show them
TasksOf(p) ==
    [n \in 1..Len(fsys[p].tasks) |->
        [taskIdentifier |-> fsys[p].tasks[n].taskIdentifier,
         taskVersion |-> fsys[p].tasks[n].taskVersion,
         sourceFile |-> WorkspaceRelative(p)]]

OnlyTemplates(p, paths) ==
    /\ IsYaml(p)
    /\ fsys[p].extends = <<>>
    /\ fsys[p].templates = [n \in 1..Len(paths) |-> ParsedTemplate(paths[n], undefined)]

\* A templates B and B templates A
TwoFileCycle == OnlyTemplates(A, <<"b.yml">>) /\ OnlyTemplates(B, <<"a.yml">>)

ParsedAtMostOnce == \A n, m \in DOMAIN parseLog : parseLog[n] = parseLog[m] => n = m

ReachableParsedOnce ==
    /\ \A p \in Reachable :
         /\ Known(p)
         /\ Count(parseLog, p) = IF fsys[p].kind = "missing" THEN 0 ELSE 1
    /\ \A n \in DOMAIN parseLog : parseLog[n] \in Reachable

TwoFileCycleResult ==
    (TwoFileCycle /\ entryFile = A /\ resolveTemplates) =>
        /\ Cardinality(processedFiles) = 2
        /\ allTasks = TasksOf(A) \o TasksOf(B)

\* what a frame of the call stack still has to do, at most
FramePotential(f) ==
    CASE f.op = "extends" -> 2 * Len(f.parsed.templates) + 3
      [] f.op = "templates" -> 2 * (Len(f.parsed.templates) - f.i + 1) + 1
      [] OTHER -> 1

RECURSIVE StackPotential(_)
StackPotential(st) ==
    IF Len(st) = 0 THEN 0 ELSE FramePotential(Head(st)) + StackPotential(Tail(st))

\* a bound on the steps the walk has left: the files not yet processed, each
\* weighted with the most a file can put on the stack, plus the stack's work
WalkMeasure ==
    (2 * MaxTemplates + 3) * Cardinality(LocalFiles \ processedFiles)
    + StackPotential(stack)
    + (IF pc = "idle" THEN 3 ELSE IF pc = "walking" THEN 1 ELSE 0)

\* a step of the walk is possible, or the walk has returned
WalkCanStep ==
    \/ pc = "done"
    \/ pc = "idle" /\ EntryFiles # {}
    \/ AtReturn
    \/ AtCall /\ (Top.filePath \in processedFiles
                  \/ Contents(Top.filePath, LocalTemplates) # {})
    \/ AtExtends
    \/ AtTemplate /\ ~Truthy(CurrentTemplate.repository)
    \/ AtEndOfTemplates

\* C1: over local files whose template/extends references form any directed
\* graph (self-references and cycles included) resolvePipeline terminates:
\* every step lowers WalkMeasure, a natural number, and a step is possible
\* (WalkCanStep) until the walk has returned. No file is parsed twice, and when the walk
\* returns every reachable existing file was parsed exactly once; for the
\* two-file cycle A <-> B processedFiles has size 2 and the tasks of A appear
\* once.
C1_TerminatesParsingEachFileOnce ==
    /\ [][WalkMeasure' < WalkMeasure]_vars
    /\ [](/\ WalkMeasure >= 0
          /\ WalkCanStep
          /\ ParsedAtMostOnce
          /\ pc = "done" => (ReachableParsedOnce /\ TwoFileCycleResult))

C1_Witness ==
    /\ pc = "done" /\ TwoFileCycle /\ Len(fsys[A].tasks) > 0
    /\ Len(TasksTagged("a.yml")) = Len(fsys[A].tasks)

\* A templates B and C, both B and C template D
Diamond ==
    /\ OnlyTemplates(A, <<"b.yml", "c.yml">>)
    /\ OnlyTemplates(B, <<"t/d.yml">>)
    /\ OnlyTemplates(C, <<"t/d.yml">>)
    /\ IsYaml(D)

\* C2: when the walk returns, the tasks tagged with the workspace-relative path
\* of a parsed file are exactly the tasks of that file, once each and in order,
\* and no task carries another tag; in the diamond A -> {B, C} -> D the file D is
\* parsed once, so its tasks appear once and carry D's path.
C2_TasksOnceUnderOwnSourceFile ==
    pc = "done" =>
        /\ \A p \in LocalFiles :
             TasksTagged(WorkspaceRelative(p)) =
                 IF IsYaml(p) /\ Count(parseLog, p) > 0 THEN TasksOf(p) ELSE <<>>
        /\ \A n \in DOMAIN allTasks :
             \E p \in LocalFiles : allTasks[n].sourceFile = WorkspaceRelative(p)
        /\ (Diamond /\ resolveTemplates) => Count(parseLog, D) = 1

C2_Witness ==
    /\ pc = "done" /\ Diamond /\ resolveTemplates
    /\ Len(fsys[D].tasks) > 0
    /\ TasksTagged("t/d.yml") = TasksOf(D)

\* the reference at position n of file p points at a file that is missing or
\* does not parse
FailingRef(p, n) == IsYaml(p) /\ n \in DOMAIN Targets(p) /\ Fails(Targets(p)[n])

\* C9: when the walk returns and a file referenced by a parsed file is missing
\* or failed to parse, the failing file contributed no tasks, the tasks of the
\* referencing file are in the result, and every sibling referenced after the
\* failing one was looked at and, when it exists and parses, was parsed and has
\* its tasks in the result.
C9_FailingFileDoesNotStopWalk ==
    (pc = "done" /\ resolveTemplates) =>
        \A p \in LocalFiles : \A n \in 1..(MaxTemplates + 1) :
            (FailingRef(p, n) /\ Count(parseLog, p) > 0) =>
                /\ TasksTagged(WorkspaceRelative(Targets(p)[n])) = <<>>
                /\ TasksTagged(WorkspaceRelative(p)) = TasksOf(p)
                /\ \A m \in DOMAIN Targets(p) :
                     m > n =>
                         /\ Known(Targets(p)[m])
                         /\ IsYaml(Targets(p)[m]) =>
                              /\ Count(parseLog, Targets(p)[m]) = 1
                              /\ TasksTagged(WorkspaceRelative(Targets(p)[m])) =
                                     TasksOf(Targets(p)[m])

\* A references a missing file and then B, which has tasks
C9_Witness ==
    /\ pc = "done" /\ resolveTemplates
    /\ IsYaml(A) /\ Len(Targets(A)) = 2
    /\ Known(Targets(A)[1]) /\ fsys[Targets(A)[1]].kind = "missing"
    /\ Targets(A)[2] = B /\ IsYaml(B) /\ Len(fsys[B].tasks) > 0
    /\ TasksTagged("b.yml") = TasksOf(B)

\* what a pre-order walk has gathered: the tasks, and the files it entered
Gathered(tasks, seen) == [tasks |-> tasks, seen |-> seen]

RECURSIVE Visit(_, _)
RECURSIVE VisitTargets(_, _, _)

\* the pre-order depth-first walk from file p of the graph whose edges are
\* Targets, a file entered before being passed over: the tasks of p, then
\* what is reached through each of its targets in turn
Visit(p, g) ==
    IF p \in g.seen \/ ~Known(p) \/ fsys[p].kind = "missing" THEN g
    ELSE IF fsys[p].kind = "bad" THEN Gathered(g.tasks, g.seen \cup {p})
    ELSE VisitTargets(p, 1, Gathered(g.tasks \o TasksOf(p), g.seen \cup {p}))

VisitTargets(p, n, g) ==
    IF n > Len(Targets(p)) THEN g
    ELSE VisitTargets(p, n + 1, Visit(Targets(p)[n], g))

PreOrderTasks ==
    IF ~IsYaml(entryFile) THEN <<>>
    ELSE IF resolveTemplates THEN Visit(entryFile, Gathered(<<>>, {})).tasks
    ELSE TasksOf(entryFile)

----------------------------------------------------------------------------
(* The walk over template paths given from the repository root *)

\* what a document may give as the path of a template: from the root of the
\* repository, from the directory of the file, and upwards
RootedTemplates ==
    {ParsedTemplate(p, undefined) : p \in {"/t/d.yml", "t/d.yml", "../b.yml"}}

InitRooted ==
    /\ resolveTemplates = TRUE
    /\ githubToken = ""
    /\ WalkIdle
    /\ MapIdle
    /\ ParseIdle
    /\ MetadataIdle
    /\ NoRun

NextRooted ==
    \/ (\E entry \in EntryFiles : ResolvePipeline(entry)) /\ UNCHANGED OutsideWalk
    \/ SkipProcessed /\ UNCHANGED OutsideWalk
    \/ FileNotFound /\ UNCHANGED OutsideWalk
    \/ ParseFails /\ UNCHANGED OutsideWalk
    \/ ParseFile(RootedTemplates) /\ UNCHANGED OutsideWalk
    \/ ProcessExtends /\ UNCHANGED OutsideWalk
    \/ ProcessLocalTemplate /\ UNCHANGED OutsideWalk
    \/ FinishFile /\ UNCHANGED OutsideWalk
    \/ ReturnResolved /\ UNCHANGED OutsideWalk

SpecRooted == InitRooted /\ [][NextRooted]_vars

\* the reference for which the call at j made the call at j + 1
ReferenceOf(j) ==
    IF stack[j].i = 1 THEN stack[j].parsed.extends[1]
    ELSE stack[j].parsed.templates[stack[j].i - 1]

\* a path with a leading '/' taken from the workspace root, any other path
\* from the directory of the referencing file, '..' collapsed
FromRootOrFile(pipelineFile, p) ==
    IF StartsWith(p, "/") THEN PathJoin(workspaceRoot, p)
    ELSE PathJoin(PathDirname(pipelineFile), p)

\* C22: the file that the walker opens for a template reference is the one
\* at the reference's path taken from the workspace root when the path begins
\* with '/', and from the directory of the referencing file otherwise
C22_Counterexample ==
    \A j \in 1..(Len(stack) - 1) :
        stack[j + 1].filePath = FromRootOrFile(stack[j].filePath, ReferenceOf(j).path)

\* The walk with external template references and an optional GitHub token
ExternalRefs == ExternalTemplateRefs \cup {ParsedTemplate("b.yml", undefined)}

InitExternal ==
    /\ resolveTemplates \in BOOLEAN
    /\ githubToken \in {"", "ghp_token"}
    /\ WalkIdle
    /\ MapIdle
    /\ ParseIdle
    /\ MetadataIdle
    /\ NoRun

NextExternal ==
    \/ (\E entry \in EntryFiles : ResolvePipeline(entry)) /\ UNCHANGED OutsideWalk
    \/ SkipProcessed /\ UNCHANGED OutsideWalk
    \/ FileNotFound /\ UNCHANGED OutsideWalk
    \/ ParseFails /\ UNCHANGED OutsideWalk
    \/ ParseFile(ExternalRefs) /\ UNCHANGED OutsideWalk
    \/ ProcessExtends /\ UNCHANGED OutsideWalk
    \/ ProcessLocalTemplate /\ UNCHANGED OutsideWalk
    \/ ExternalNoToken /\ UNCHANGED OutsideWalk
    \/ ExternalAlias /\ UNCHANGED OutsideWalk
    \/ ExternalTrack /\ UNCHANGED OutsideWalk
    \/ FetchThrows /\ UNCHANGED OutsideWalk
    \/ FetchNotFile /\ UNCHANGED OutsideWalk
    \/ FetchFile(ExternalRefs) /\ UNCHANGED OutsideWalk
    \/ FinishFile /\ UNCHANGED OutsideWalk
    \/ ReturnResolved /\ UNCHANGED OutsideWalk

SpecExternal == InitExternal /\ [][NextExternal]_vars

\* C17: with template resolution disabled, resolvePipeline(entry) returns
\* exactly the tasks of the entry file: no extends or template reference,
\* local or external, is followed (no other file is looked at, nothing is
\* fetched), processedFiles holds only the entry file and externalTemplates
\* is empty
C17_DisabledResolutionReadsEntryOnly ==
    ~resolveTemplates =>
        /\ processedFiles \subseteq {entryFile}
        /\ externalTemplates = <<>>
        /\ fetchLog = <<>>
        /\ Len(stack) <= 1
        /\ pc = "done" =>
               /\ DOMAIN fsys = {entryFile}
               /\ IF IsYaml(entryFile)
                  THEN /\ processedFiles = {entryFile}
                       /\ parseLog = <<entryFile>>
                       /\ Len(allTasks) = Len(fsys[entryFile].tasks)
                       /\ \A n \in DOMAIN allTasks :
                              /\ allTasks[n].taskIdentifier =
                                     fsys[entryFile].tasks[n].taskIdentifier
                              /\ allTasks[n].taskVersion =
                                     fsys[entryFile].tasks[n].taskVersion
                              /\ allTasks[n].sourceFile = WorkspaceRelative(entryFile)
                  ELSE allTasks = <<>>

\* the entry file has an extends template, a local and an external template
\* reference, and the walk with resolution disabled returns its two tasks
C17_Witness ==
    /\ ~resolveTemplates
    /\ pc = "done"
    /\ IsYaml(entryFile)
    /\ fsys[entryFile].extends # <<>>
    /\ \E i, j \in DOMAIN fsys[entryFile].templates :
           /\ Truthy(fsys[entryFile].templates[i].repository)
           /\ ~Truthy(fsys[entryFile].templates[j].repository)
    /\ Len(allTasks) = 2
    /\ processedFiles = {entryFile}

\* the next template reference names a repository and cannot be resolved:
\* there is no GitHub token, or the repository is an alias, not owner/repo
UnresolvableNext ==
    /\ AtTemplate
    /\ Truthy(CurrentTemplate.repository)
    /\ githubToken = "" \/ ~Includes(CurrentTemplate.repository, "/")

\* the skip of the next template reference: one warning and nothing else,
\* and the loop over the references of the file goes on with the one after
SkippedWithWarning ==
    /\ Len(walkWarnings') = Len(walkWarnings) + 1
    /\ SubSeq(walkWarnings', 1, Len(walkWarnings)) = walkWarnings
    /\ allTasks' = allTasks
    /\ externalTemplates' = externalTemplates
    /\ processedFiles' = processedFiles
    /\ fetchLog' = fetchLog
    /\ parseLog' = parseLog
    /\ pc' = "walking"
    /\ Len(stack') = Len(stack)
    /\ SubSeq(stack', 1, Len(stack) - 1) = Pop
    /\ stack'[Len(stack)] = [Top EXCEPT !.i = Top.i + 1]

\* C19: an external template reference that cannot be resolved (no GitHub
\* token, or a bare alias as repository) is skipped with a warning: the step
\* adds no tasks, nothing to externalTemplates and processedFiles, fetches
\* nothing, ends no walk, and leaves the file's loop at the next reference
C19_UnresolvableExternalIsSkipped ==
    [][UnresolvableNext => SkippedWithWarning]_vars

\* with a token, the entry file refers to an alias repository and then to
\* b.yml: the alias is skipped with a warning and b.yml is processed
C19_Witness ==
    /\ pc = "done"
    /\ githubToken # ""
    /\ IsYaml(A)
    /\ fsys[A].templates = <<ParsedTemplate("steps.yml", "tpl"),
                             ParsedTemplate("b.yml", undefined)>>
    /\ Count(walkWarnings, Warning("Cannot resolve repository alias", "tpl")) = 1
    /\ B \in processedFiles
    /\ externalTemplates = <<>>
    /\ fetchLog = <<>>

----------------------------------------------------------------------------
(* The walk over external templates of one repository, with a token *)

\* two files of the same name in different directories of org/tpl
SameNameRefs ==
    {ParsedTemplate("ci/steps.yml", "org/tpl"), ParsedTemplate("cd/steps.yml", "org/tpl")}

InitSameName ==
    /\ resolveTemplates = TRUE
    /\ githubToken = "ghp_token"
    /\ WalkIdle
    /\ MapIdle
    /\ ParseIdle
    /\ MetadataIdle
    /\ NoRun

NextSameName ==
    \/ (\E entry \in EntryFiles : ResolvePipeline(entry)) /\ UNCHANGED OutsideWalk
    \/ SkipProcessed /\ UNCHANGED OutsideWalk
    \/ FileNotFound /\ UNCHANGED OutsideWalk
    \/ ParseFails /\ UNCHANGED OutsideWalk
    \/ ParseFile(SameNameRefs) /\ UNCHANGED OutsideWalk
    \/ ProcessExtends /\ UNCHANGED OutsideWalk
    \/ ExternalTrack /\ UNCHANGED OutsideWalk
    \/ FetchThrows /\ UNCHANGED OutsideWalk
    \/ FetchNotFile /\ UNCHANGED OutsideWalk
    \/ FetchFile(SameNameRefs) /\ UNCHANGED OutsideWalk
    \/ FinishFile /\ UNCHANGED OutsideWalk
    \/ ReturnResolved /\ UNCHANGED OutsideWalk

SpecSameName == InitSameName /\ [][NextSameName]_vars

\* the walker is about to enter the file that a download was written to; a
\* download is handed to the walker only when its external key is new
AtFetchedFile ==
    /\ AtCall
    /\ StartsWith(Top.filePath, PathJoin(workspaceRoot, ".azure-pipelines-temp") \o "/")
    /\ IsYaml(Top.filePath)

\* C26: a downloaded template whose key external:{owner}/{repo}/{path} was
\* not seen before in the walk is walked: the next step adds the tasks of the
\* downloaded document to the task list, also when another template of the
\* same file name was downloaded from another directory of the repository
C26_Counterexample ==
    [][AtFetchedFile => allTasks' = allTasks \o TasksOf(Top.filePath)]_vars

----------------------------------------------------------------------------
(* JavaScript Map operations and number conversions *)

MapHas(m, k) == k \in DOMAIN m.vals

MapGet(m, k) == m.vals[k]

\* Map.prototype.set: a new key goes last, an existing key keeps its place
MapSet(m, k, v) ==
    [keys |-> IF MapHas(m, k) THEN m.keys ELSE Append(m.keys, k),
     vals |-> [x \in DOMAIN m.vals \cup {k} |-> IF x = k THEN v ELSE m.vals[x]]]

\* Map.prototype.values, in insertion order
MapValues(m) == [i \in 1..Len(m.keys) |-> m.vals[m.keys[i]]]

\* JavaScript's null, as a value that no InstalledTask or Dependency equals
null == [null |-> TRUE]

\* JavaScript's NaN, as parseInt returns it
NaN == -1

DigitVal(c) ==
    CASE c = "0" -> 0 [] c = "1" -> 1 [] c = "2" -> 2 [] c = "3" -> 3
      [] c = "4" -> 4 [] c = "5" -> 5 [] c = "6" -> 6 [] c = "7" -> 7
      [] c = "8" -> 8 [] c = "9" -> 9 [] OTHER -> -1

IsDigit(c) == DigitVal(c) >= 0

RECURSIVE DigitsValue(_, _)
\* the value of the longest prefix of decimal digits of s, continuing acc
DigitsValue(s, acc) ==
    IF Len(s) = 0 \/ ~IsDigit(Ch(s, 1)) THEN acc
    ELSE DigitsValue(SubSeq(s, 2, Len(s)), 10 * acc + DigitVal(Ch(s, 1)))

\* `Number(s) || 0` on a string of decimal digits; anything else counts as 0
NumberOr0(s) ==
    IF \A i \in 1..Len(s) : IsDigit(Ch(s, i)) THEN DigitsValue(s, 0) ELSE 0

\* parseInt(s, 10): the leading decimal digits, NaN when there are none
ParseInt(s) ==
    IF Len(s) > 0 /\ IsDigit(Ch(s, 1)) THEN DigitsValue(s, 0) ELSE NaN

\* a number inside a template literal
NumToString(n) == IF n = NaN THEN "NaN" ELSE ToString(n)

EncodeChar(c) ==
    CASE c = " " -> "%20" [] c = "/" -> "%2F" [] c = "@" -> "%40"
      [] c = ":" -> "%3A" [] c = "+" -> "%2B" [] c = "#" -> "%23"
      [] OTHER -> c

RECURSIVE encodeURIComponent(_)
encodeURIComponent(s) ==
    IF Len(s) = 0 THEN ""
    ELSE EncodeChar(Ch(s, 1)) \o encodeURIComponent(SubSeq(s, 2, Len(s)))

----------------------------------------------------------------------------
(* AzureDevOpsClient: the task catalog *)

\* One task definition as the task agent API lists it
TaskDefinition(id, name, version, author, contributionIdentifier, serverOwned) ==
    [id |-> id, name |-> name, version |-> version, author |-> author,
     contributionIdentifier |-> contributionIdentifier,
     serverOwned |-> serverOwned, definitionType |-> "task"]

TaskVersion(major, minor, patch) == [major |-> major, minor |-> minor, patch |-> patch]

InstalledTask(id, name, version, major, fullIdentifier, isBuiltIn, author) ==
    [id |-> id, name |-> name, version |-> version, major |-> major,
     fullIdentifier |-> fullIdentifier, isBuiltIn |-> isBuiltIn, author |-> author]

\* a comparison that looks at the major component only
compareVersionsMajorOnly(v1, v2) ==
    NumberOr0(Split(v1, ".")[1]) - NumberOr0(Split(v2, ".")[1])

\* positive if v1 > v2, negative if v1 < v2, 0 if equal
compareVersions(v1, v2) ==
    LET parts1 == Split(v1, ".")
        parts2 == Split(v2, ".")
        n == IF Len(parts1) > Len(parts2) THEN Len(parts1) ELSE Len(parts2)
        p1(i) == IF i <= Len(parts1) THEN NumberOr0(parts1[i]) ELSE 0
        p2(i) == IF i <= Len(parts2) THEN NumberOr0(parts2[i]) ELSE 0
        diff == {i \in 1..n : p1(i) # p2(i)}
    IN  IF diff = {} THEN 0
        ELSE LET i == CHOOSE j \in diff : \A k \in diff : j <= k
             IN  p1(i) - p2(i)

isBuiltInTask(task) ==
    IF task.serverOwned = TRUE THEN TRUE
    ELSE IF task.definitionType = "metaTask" THEN TRUE
    ELSE IF /\ ~Truthy(task.contributionIdentifier)
            /\ \/ task.author = "Microsoft Corporation"
               \/ task.author = "Microsoft"
               \/ ~Truthy(task.author)
         THEN TRUE
    ELSE FALSE

\* an identifier that prefers the built-in form to the contribution identifier
buildFullIdentifierBuiltInFirst(task, isBuiltIn) ==
    IF isBuiltIn THEN "Microsoft.BuiltIn." \o task.name
    ELSE IF Truthy(task.contributionIdentifier) THEN task.contributionIdentifier
    ELSE IF Truthy(task.name) THEN task.name ELSE task.id

buildFullIdentifier(task, isBuiltIn) ==
    IF Truthy(task.contributionIdentifier) THEN task.contributionIdentifier
    ELSE IF isBuiltIn THEN "Microsoft.BuiltIn." \o task.name
    ELSE IF Truthy(task.name) THEN task.name ELSE task.id

\* the fallback branch of buildFullIdentifier, which logs a warning
FullIdentifierFallback(task, isBuiltIn) ==
    ~Truthy(task.contributionIdentifier) /\ ~isBuiltIn

MissingRequiredFields(task) ==
    \/ ~Truthy(task.id)
    \/ ~Truthy(task.name)
    \/ "major" \notin DOMAIN task.version

\* One iteration of the loop over the listed task definitions
RegisterTask(st, task) ==
    IF MissingRequiredFields(task)
    THEN [st EXCEPT !.warnings =
              Append(@, Warning("Skipping task with missing required fields", task))]
    ELSE
    LET major == task.version.major
        version == ToString(major) \o "." \o ToString(task.version.minor)
                       \o "." \o ToString(task.version.patch)
        isBuiltIn == isBuiltInTask(task)
        fullIdentifier == buildFullIdentifier(task, isBuiltIn)
        installedTask == InstalledTask(task.id, task.name, version, major,
                                       fullIdentifier, isBuiltIn, task.author)
        nameKey == ToLowerCase(task.name)
        idKey == ToLowerCase(task.id)
        nameMajorKey == nameKey \o "@" \o ToString(major)
        idMajorKey == idKey \o "@" \o ToString(major)
        byName == st.highestByName
        byNameMajor == st.highestByNameMajor
    IN  [highestByName |->
             IF \/ ~MapHas(byName, nameKey)
                \/ compareVersions(version, MapGet(byName, nameKey).version) > 0
             THEN MapSet(MapSet(byName, nameKey, installedTask), idKey, installedTask)
             ELSE byName,
         highestByNameMajor |->
             IF \/ ~MapHas(byNameMajor, nameMajorKey)
                \/ compareVersions(version, MapGet(byNameMajor, nameMajorKey).version) > 0
             THEN MapSet(MapSet(byNameMajor, nameMajorKey, installedTask),
                         idMajorKey, installedTask)
             ELSE byNameMajor,
         warnings |->
             IF FullIdentifierFallback(task, isBuiltIn)
             THEN Append(st.warnings,
                         Warning("Task could not be fully resolved, using", fullIdentifier))
             ELSE st.warnings]

RECURSIVE RegisterAll(_, _)
RegisterAll(tasks, st) ==
    IF Len(tasks) = 0 THEN st
    ELSE RegisterAll(Tail(tasks), RegisterTask(st, Head(tasks)))

RECURSIVE MergeInto(_, _, _)
\* copy the entries of `from`, from its i-th key on, into `into`
MergeInto(into, from, i) ==
    IF i > Len(from.keys) THEN into
    ELSE MergeInto(MapSet(into, from.keys[i], from.vals[from.keys[i]]), from, i + 1)

\* getInstalledTasks when the task agent API answers with `tasks`
GetInstalledTasks(tasks) ==
    /\ mpc = "idle"
    /\ LET st == RegisterAll(tasks, [highestByName |-> NewMap,
                                     highestByNameMajor |-> NewMap,
                                     warnings |-> <<>>])
       IN  /\ taskMap' = MergeInto(MergeInto(NewMap, st.highestByName, 1),
                                   st.highestByNameMajor, 1)
           /\ catalogWarnings' = st.warnings
    /\ listing' = tasks
    /\ mpc' = "catalog"
    /\ UNCHANGED <<tasksIn, snapshot, mapWarnings>>

\* getInstalledTasks when the task agent API throws: the error is rethrown
GetInstalledTasksThrows ==
    /\ mpc = "idle"
    /\ mpc' = "failed"
    /\ UNCHANGED <<listing, taskMap, catalogWarnings, tasksIn, snapshot, mapWarnings>>

----------------------------------------------------------------------------
(* DependencyMapper *)

IsHex(c) ==
    \/ IsDigit(c)
    \/ LowerChar(c) \in {"a", "b", "c", "d", "e", "f"}

\* /^[0-9a-f]{8}-[0-9a-f]{4}-[0-9a-f]{4}-[0-9a-f]{4}-[0-9a-f]{12}$/i
isGuid(str) ==
    /\ Len(str) = 36
    /\ \A i \in 1..36 :
         IF i \in {9, 14, 19, 24} THEN Ch(str, i) = "-" ELSE IsHex(Ch(str, i))

\* a normalisation that keeps only the major component of a partial version
normalizeVersionMajorOnly(version) ==
    LET parts == Split(version, ".")
    IN  IF Len(parts) <= 2 THEN parts[1] \o ".*.*" ELSE version

\* major-only and major.minor versions get wildcards, full versions stay
normalizeVersion(version) ==
    LET parts == Split(version, ".")
    IN  IF Len(parts) = 1 THEN parts[1] \o ".*.*"
        ELSE IF Len(parts) = 2 THEN parts[1] \o "." \o parts[2] \o ".*"
        ELSE version

RECURSIVE FirstWithFullIdentifier(_, _, _)
\* the scan over taskMap.values() for a matching fullIdentifier
FirstWithFullIdentifier(values, normalizedId, i) ==
    IF i > Len(values) THEN null
    ELSE IF ToLowerCase(values[i].fullIdentifier) = normalizedId THEN values[i]
    ELSE FirstWithFullIdentifier(values, normalizedId, i + 1)

\* the last dot-separated part of an identifier
LastPart(identifier) == Split(identifier, ".")[Len(Split(identifier, "."))]

\* lookups that never try the last dot-separated part
LookupTaskWholeOnly(identifier, normalizedId, lastPart, lastKey) ==
    IF MapHas(taskMap, normalizedId) THEN MapGet(taskMap, normalizedId)
    ELSE IF ~Includes(identifier, ".") THEN null
    ELSE FirstWithFullIdentifier(MapValues(taskMap), normalizedId, 1)

\* the lookups of resolveTask, given the lowercased identifier and the
\* lowercased last part (the task name, or a GUID)
LookupTask(identifier, normalizedId, lastPart, lastKey) ==
    IF MapHas(taskMap, normalizedId) THEN MapGet(taskMap, normalizedId)
    ELSE IF ~Includes(identifier, ".") THEN null
    ELSE IF MapHas(taskMap, lastKey) THEN MapGet(taskMap, lastKey)
    ELSE IF isGuid(lastPart) /\ MapHas(taskMap, lastKey) THEN MapGet(taskMap, lastKey)
    ELSE FirstWithFullIdentifier(MapValues(taskMap), normalizedId, 1)

\* a resolution that looks the identifier up as it is written
resolveTaskExactCase(identifier) ==
    LookupTask(identifier, identifier, LastPart(identifier), LastPart(identifier))

resolveTask(identifier) ==
    LookupTask(identifier, ToLowerCase(identifier), LastPart(identifier),
               ToLowerCase(LastPart(identifier)))

\* the lookups of resolveTaskByMajor, given the key of the whole identifier
\* and the key of its last part (the task name, or a GUID), both with @major
LookupTaskByMajor(identifier, versionKey, lastPart, lastKey) ==
    IF MapHas(taskMap, versionKey) THEN MapGet(taskMap, versionKey)
    ELSE IF Includes(identifier, ".") /\ MapHas(taskMap, lastKey)
         THEN MapGet(taskMap, lastKey)
    ELSE IF Includes(identifier, ".") /\ isGuid(lastPart) /\ MapHas(taskMap, lastKey)
         THEN MapGet(taskMap, lastKey)
    ELSE resolveTask(identifier)

resolveTaskByMajor(identifier, majorVersion) ==
    LookupTaskByMajor(identifier,
                      ToLowerCase(identifier) \o "@" \o NumToString(majorVersion),
                      LastPart(identifier),
                      ToLowerCase(LastPart(identifier)) \o "@" \o NumToString(majorVersion))

PackageUrl(fullIdentifier, version) ==
    "pkg:generic/azure-pipelines/" \o encodeURIComponent(fullIdentifier) \o "@" \o version

\* a Dependency without the optional `dependencies` field
Dependency(packageUrl, relationship) ==
    [package_url |-> packageUrl, relationship |-> relationship, scope |-> "runtime"]

DependencyWith(packageUrl, relationship, dependencies) ==
    [package_url |-> packageUrl, relationship |-> relationship, scope |-> "runtime",
     dependencies |-> dependencies]

CouldNotResolve(task) == Warning("Could not resolve task", task.taskIdentifier)

\* a mapping that never synthesizes the entry of the installed version
DirectOnly(task, resolved, installedTask) ==
    IF installedTask = null
    THEN [dependency |-> null, resolved |-> resolved,
          warnings |-> <<CouldNotResolve(task)>>]
    ELSE [dependency |->
              Dependency(PackageUrl(installedTask.fullIdentifier,
                             normalizeVersion(IF Truthy(task.taskVersion)
                                              THEN task.taskVersion
                                              ELSE installedTask.version)),
                         "direct"),
          resolved |-> resolved,
          warnings |-> <<>>]

mapTaskToDependencyNoTransitive(task, resolved) ==
    DirectOnly(task, resolved, resolveTask(task.taskIdentifier))

\* the version a reference asks for, or the installed one, normalized
VersionOf(task, installedTask) ==
    normalizeVersion(IF Truthy(task.taskVersion) THEN task.taskVersion
                     ELSE installedTask.version)

\* `versionSpecificTask?.version || installedTask.version`
ActualVersion(versionSpecificTask, installedTask) ==
    IF versionSpecificTask # null /\ Truthy(versionSpecificTask.version)
    THEN versionSpecificTask.version
    ELSE installedTask.version

\* a slip: the direct entry lists the installed version without its entry
\* being added to `resolved`
WithTransitiveNotAdded(resolved, packageUrl, actualPackageUrl) ==
    [dependency |-> DependencyWith(packageUrl, "direct", <<actualPackageUrl>>),
     resolved |-> resolved,
     warnings |-> <<>>]

\* the wildcard branch: the entry of the installed version is added to
\* `resolved` unless it is there, and the direct entry lists it
WithTransitive(resolved, packageUrl, actualPackageUrl) ==
    [dependency |-> DependencyWith(packageUrl, "direct", <<actualPackageUrl>>),
     resolved |->
         IF ~MapHas(resolved, actualPackageUrl)
         THEN MapSet(resolved, actualPackageUrl, Dependency(actualPackageUrl, "indirect"))
         ELSE resolved,
     warnings |-> <<>>]

\* mapTaskToDependency from the normalized version on
MapVersion(task, resolved, installedTask, normalizedVersion) ==
    IF Includes(normalizedVersion, "*")
    THEN WithTransitive(
             resolved,
             PackageUrl(installedTask.fullIdentifier, normalizedVersion),
             PackageUrl(installedTask.fullIdentifier,
                        ActualVersion(
                            resolveTaskByMajor(task.taskIdentifier,
                                ParseInt(Split(normalizedVersion, ".")[1])),
                            installedTask)))
    ELSE [dependency |->
              Dependency(PackageUrl(installedTask.fullIdentifier, normalizedVersion),
                         "direct"),
          resolved |-> resolved,
          warnings |-> <<>>]

\* mapTaskToDependency from the resolved task on
MapInstalled(task, resolved, installedTask) ==
    IF installedTask = null
    THEN [dependency |-> null, resolved |-> resolved,
          warnings |-> <<CouldNotResolve(task)>>]
    ELSE MapVersion(task, resolved, installedTask, VersionOf(task, installedTask))

\* returns the dependency (or null), the `resolved` object as the call leaves
\* it, and the warnings the call logs
mapTaskToDependency(task, resolved) ==
    MapInstalled(task, resolved, resolveTask(task.taskIdentifier))

\* a deduplication key that leaves the version out
DedupeKeyNoVersion(installedTask, version) == installedTask.fullIdentifier

\* the deduplication key of a resolved reference within one source file
DedupeKey(installedTask, version) == installedTask.fullIdentifier \o "@" \o version

\* skipping an unresolved reference without logging it
SkipUnresolvedSilently(st, task) == st

\* a reference that resolves to nothing is logged and skipped
SkipUnresolved(st, task) ==
    [st EXCEPT !.warnings = Append(@, CouldNotResolve(task))]

\* a slip: an entry that `resolved` already has is left as it is
AddDependencyKeepsFirst(st, dedupeKey, r) ==
    [resolved |->
         IF r.dependency # null /\ ~MapHas(r.resolved, r.dependency.package_url)
         THEN MapSet(r.resolved, r.dependency.package_url, r.dependency)
         ELSE r.resolved,
     seen |-> st.seen \cup {dedupeKey},
     warnings |-> st.warnings \o r.warnings]

\* `resolved[dependency.package_url] = dependency`, the key marked as seen
AddDependency(st, dedupeKey, r) ==
    [resolved |->
         IF r.dependency # null
         THEN MapSet(r.resolved, r.dependency.package_url, r.dependency)
         ELSE r.resolved,
     seen |-> st.seen \cup {dedupeKey},
     warnings |-> st.warnings \o r.warnings]

\* the loop body from the deduplication key on
ProcessKey(st, task, dedupeKey) ==
    IF dedupeKey \in st.seen THEN st
    ELSE AddDependency(st, dedupeKey, mapTaskToDependency(task, st.resolved))

\* the loop body from the resolved task on
ProcessInstalled(st, task, installedTask) ==
    IF installedTask = null THEN SkipUnresolved(st, task)
    ELSE ProcessKey(st, task, DedupeKey(installedTask, VersionOf(task, installedTask)))

\* One iteration of the loop over the references of one source file
ProcessTask(st, task) == ProcessInstalled(st, task, resolveTask(task.taskIdentifier))

RECURSIVE ProcessFileTasks(_, _)
ProcessFileTasks(fileTasks, st) ==
    IF Len(fileTasks) = 0 THEN st
    ELSE ProcessFileTasks(Tail(fileTasks), ProcessTask(st, Head(fileTasks)))

SourceFileOf(task, manifestPath) ==
    IF Truthy(task.sourceFile) THEN task.sourceFile ELSE manifestPath

\* everything in one group under manifestPath, as the mapper did before it
\* grouped by source file
GroupByFileUngrouped(tasks, manifestPath, tasksByFile) ==
    IF Len(tasks) = 0 THEN tasksByFile
    ELSE MapSet(tasksByFile, manifestPath, tasks)

RECURSIVE GroupByFile(_, _, _)
\* tasksByFile: the references grouped by source file, in order of first use
GroupByFile(tasks, manifestPath, tasksByFile) ==
    IF Len(tasks) = 0 THEN tasksByFile
    ELSE LET task == Head(tasks)
             sourceFile == SourceFileOf(task, manifestPath)
             sofar == IF MapHas(tasksByFile, sourceFile)
                      THEN MapGet(tasksByFile, sourceFile) ELSE <<>>
         IN  GroupByFile(Tail(tasks), manifestPath,
                         MapSet(tasksByFile, sourceFile, Append(sofar, task)))

\* `manifests[manifestName] = {name, file, resolved}` after the loop over the
\* references of sourceFile, which ended in st
AddManifest(acc, sourceFile, manifestName, st) ==
    [manifests |->
         MapSet(acc.manifests, manifestName,
                [name |-> manifestName,
                 file |-> [source_location |-> sourceFile],
                 resolved |-> st.resolved]),
     warnings |-> st.warnings]

RECURSIVE BuildManifests(_, _, _, _)
\* the loop over tasksByFile, from its i-th source file on
BuildManifests(tasksByFile, jobId, i, acc) ==
    IF i > Len(tasksByFile.keys) THEN acc
    ELSE BuildManifests(tasksByFile, jobId, i + 1,
             AddManifest(acc, tasksByFile.keys[i], tasksByFile.keys[i] \o ":" \o jobId,
                         ProcessFileTasks(MapGet(tasksByFile, tasksByFile.keys[i]),
                                          [resolved |-> NewMap, seen |-> {},
                                           warnings |-> acc.warnings])))

\* the returned object, and the warnings logged on the way
Snapshot(built) ==
    [snapshot |-> [version |-> 0,
                   detector |-> [name |-> "azure-pipelines-dependency-submission",
                                 version |-> "1.0.0"],
                   manifests |-> built.manifests],
     warnings |-> built.warnings]

\* the snapshot and the warnings logged while building it
createSnapshot(tasks, manifestPath, jobId) ==
    Snapshot(BuildManifests(GroupByFile(tasks, manifestPath, NewMap), jobId, 1,
                            [manifests |-> NewMap, warnings |-> <<>>]))

\* createSnapshot returning r
Returns(tasks, r) ==
    /\ snapshot' = r.snapshot
    /\ mapWarnings' = r.warnings
    /\ tasksIn' = tasks
    /\ mpc' = "mapped"
    /\ UNCHANGED <<listing, taskMap, catalogWarnings>>

CreateSnapshot(tasks, manifestPath, jobId) ==
    /\ mpc = "catalog"
    /\ Returns(tasks, createSnapshot(tasks, manifestPath, jobId))

----------------------------------------------------------------------------
(* The catalog and the mapper as specifications *)

MaxListing == 3
MaxInstalled == 2
MaxTasks == 2

G1 == "e213ff0f-5d5c-4791-802d-52ea3e7be1f1"
G2 == "fe47e961-9fa8-4106-8639-368c022d43ad"

\* all sequences over S of length at most n
SeqsUpTo(S, n) == UNION {[1..k -> S] : k \in 0..n}

\* those without a repeated element
DistinctSeqsUpTo(S, n) ==
    {q \in SeqsUpTo(S, n) : \A i, j \in DOMAIN q : q[i] = q[j] => i = j}

BuiltIn(id, name, version) ==
    TaskDefinition(id, name, version, "Microsoft Corporation", undefined, TRUE)

Extension(id, name, version, contributionIdentifier) ==
    TaskDefinition(id, name, version, "pub", contributionIdentifier, FALSE)

ListedVersions == {TaskVersion(1, 9, 0), TaskVersion(1, 10, 0), TaskVersion(2, 0, 0)}

\* listings in which ids and names need not correspond, and one record
\* without an id
CatalogRecords ==
    {BuiltIn(id, name, v) : id \in {G1, G2}, name \in {"PowerShell", "Npm"},
                            v \in ListedVersions}
        \cup {BuiltIn(undefined, "Broken", TaskVersion(1, 0, 0))}

InitCatalog ==
    /\ resolveTemplates = FALSE
    /\ githubToken = ""
    /\ WalkIdle
    /\ MapIdle
    /\ ParseIdle
    /\ MetadataIdle
    /\ NoRun

NextCatalog ==
    \/ (\E tasks \in SeqsUpTo(CatalogRecords, MaxListing) : GetInstalledTasks(tasks))
           /\ UNCHANGED OutsideMap
    \/ GetInstalledTasksThrows /\ UNCHANGED OutsideMap

SpecCatalog == InitCatalog /\ [][NextCatalog]_vars

\* a well-formed organisation: a built-in task and an extension task
InstalledRecords ==
    {BuiltIn(G1, "PowerShell", v) : v \in {TaskVersion(1, 9, 0), TaskVersion(1, 10, 0)}}
        \cup {Extension(G2, "MyTask", v, "pub.ext.contrib") :
                  v \in {TaskVersion(1, 0, 0), TaskVersion(2, 1, 0)}}

TaskRef(id, ver, sourceFile) ==
    [taskIdentifier |-> id, taskVersion |-> ver, sourceFile |-> sourceFile]

TaskRefs ==
    {TaskRef("PowerShell", undefined, undefined),
     TaskRef("PowerShell", "1", undefined),
     TaskRef("PowerShell", "1", "a.yml"),
     TaskRef("powershell", "1.*.*", undefined),
     TaskRef("PowerShell", "1.9", undefined),
     TaskRef("PowerShell", "1.10.0", undefined),
     TaskRef("PowerShell", "3", undefined),
     TaskRef("pub.ext.contrib", "1", undefined),
     TaskRef("MyTask", "1", undefined),
     TaskRef("Unknown", "1", undefined)}

ManifestPath == "azure-pipelines"
JobId == "job"

InitMap == InitCatalog

NextMap ==
    \/ (\E tasks \in DistinctSeqsUpTo(InstalledRecords, MaxInstalled) :
            GetInstalledTasks(tasks)) /\ UNCHANGED OutsideMap
    \/ GetInstalledTasksThrows /\ UNCHANGED OutsideMap
    \/ (\E tasks \in SeqsUpTo(TaskRefs, MaxTasks) :
            CreateSnapshot(tasks, ManifestPath, JobId)) /\ UNCHANGED OutsideMap

SpecMap == InitMap /\ [][NextMap]_vars

\* The resolution of identifiers in their several spellings: the number of
\* references of one createSnapshot call
MaxLookups == 1

G1Upper == "E213FF0F-5D5C-4791-802D-52EA3E7BE1F1"

\* a task name, a GUID, qualified names that end in one of them, a
\* contribution identifier and a canonical built-in identifier, in two
\* spellings each, and identifiers of no installed task
Identifiers ==
    {"PowerShell", "POWERSHELL", G1, G1Upper,
     "some.publisher." \o G1, "Some.Publisher." \o G1Upper,
     "ms.tasks.PowerShell", "MS.Tasks.POWERSHELL",
     "pub.ext.contrib", "Pub.Ext.Contrib",
     "Microsoft.BuiltIn.PowerShell", "microsoft.builtin.powershell",
     "some.publisher.Unknown", "Unknown"}

Lookups == {TaskRef(id, ver, undefined) : id \in Identifiers, ver \in {undefined, "1"}}

InitResolve == InitCatalog

NextResolve ==
    \/ (\E tasks \in DistinctSeqsUpTo(InstalledRecords, MaxInstalled) :
            GetInstalledTasks(tasks)) /\ UNCHANGED OutsideMap
    \/ GetInstalledTasksThrows /\ UNCHANGED OutsideMap
    \/ (\E tasks \in SeqsUpTo(Lookups, MaxLookups) :
            CreateSnapshot(tasks, ManifestPath, JobId)) /\ UNCHANGED OutsideMap

SpecResolve == InitResolve /\ [][NextResolve]_vars

\* An organisation in which the contribution identifier of an extension task
\* ends in the name of a built-in task
QualifiedRecords ==
    {BuiltIn(G1, "PowerShell", v) : v \in {TaskVersion(1, 9, 0), TaskVersion(2, 0, 0)}}
        \cup {Extension(G2, "MyTask", v, "pub.ext.PowerShell") :
                  v \in {TaskVersion(1, 0, 0), TaskVersion(2, 1, 0)}}

QualifiedLookups ==
    {TaskRef(id, ver, undefined) :
        id \in {"pub.ext.PowerShell", "PUB.EXT.powershell", "Microsoft.BuiltIn.PowerShell",
                "PowerShell", "MyTask"},
        ver \in {undefined, "1", "2.1.0"}}

InitQualified == InitCatalog

NextQualified ==
    \/ (\E tasks \in DistinctSeqsUpTo(QualifiedRecords, MaxInstalled) :
            GetInstalledTasks(tasks)) /\ UNCHANGED OutsideMap
    \/ GetInstalledTasksThrows /\ UNCHANGED OutsideMap
    \/ (\E tasks \in SeqsUpTo(QualifiedLookups, MaxLookups) :
            CreateSnapshot(tasks, ManifestPath, JobId)) /\ UNCHANGED OutsideMap

SpecQualified == InitQualified /\ [][NextQualified]_vars

\* The canonical identifier: listings of one task in every combination of
\* the fields that isBuiltInTask and buildFullIdentifier read
MaxIdentified == 2

Authors == {undefined, "Microsoft", "Microsoft Corporation", "pub"}

IdentityRecords ==
    {[TaskDefinition(G1, "PowerShell", TaskVersion(1, 0, 0), author,
                     contributionIdentifier, serverOwned)
          EXCEPT !.definitionType = definitionType] :
        author \in Authors,
        contributionIdentifier \in {undefined, "pub.ext.contrib"},
        serverOwned \in BOOLEAN,
        definitionType \in {"task", "metaTask"}}

InitIdentify == InitCatalog

NextIdentify ==
    \/ (\E tasks \in SeqsUpTo(IdentityRecords, MaxIdentified) : GetInstalledTasks(tasks))
           /\ UNCHANGED OutsideMap
    \/ GetInstalledTasksThrows /\ UNCHANGED OutsideMap

SpecIdentify == InitIdentify /\ [][NextIdentify]_vars

----------------------------------------------------------------------------
(* run() of main.ts: from one awaited call to the next *)

\* a call of run() to a collaborator, or to core.setFailed, and the number of
\* definitions that findBuildDefinitionsForFile returned, or of tasks that
\* previewPipeline returned
Called(call, file, definitionId, returned) ==
    [call |-> call, file |-> file, definitionId |-> definitionId, returned |-> returned]

Logged(call) == Called(call, "", 0, 0)

\* findBuildDefinitionsForFile rejected
Rejected == -1

CurrentFile == pipelineFiles[fileIndex]

InFileLoop == rpc = "files" /\ fileIndex <= Len(pipelineFiles)

\* an input is rejected (parse-templates-by, GITHUB_SHA, GITHUB_REF): the
\* error is caught and the run fails
RunInvalidInputs ==
    /\ rpc = "start"
    /\ rpc' = "failed"
    /\ runLog' = Append(runLog, Logged("setFailed"))
    /\ UNCHANGED <<useServerParsing, pipelineFiles, fileIndex, definitions, defIndex, runTasks>>
    /\ UNCHANGED <<walkVars, mapVars, parseVars, metaVars>>

\* Step 1: getInstalledTasks resolves
RunGetInstalledTasks(tasks) ==
    /\ rpc = "start"
    /\ GetInstalledTasks(tasks)
    /\ rpc' = "discover"
    /\ runLog' = Append(runLog, Logged("getInstalledTasks"))
    /\ UNCHANGED <<useServerParsing, pipelineFiles, fileIndex, definitions, defIndex, runTasks>>
    /\ UNCHANGED <<walkVars, parseVars, metaVars>>

\* a slip: the rejection of getInstalledTasks is swallowed and the run goes
\* on with an empty catalog
RunGetInstalledTasksFailsContinues ==
    /\ rpc = "start"
    /\ GetInstalledTasksThrows
    /\ rpc' = "discover"
    /\ runLog' = Append(runLog, Logged("getInstalledTasks"))
    /\ UNCHANGED <<useServerParsing, pipelineFiles, fileIndex, definitions, defIndex, runTasks>>
    /\ UNCHANGED <<walkVars, parseVars, metaVars>>

\* Step 1: getInstalledTasks rejects; the catch block of run() fails the run
RunGetInstalledTasksFails ==
    /\ rpc = "start"
    /\ GetInstalledTasksThrows
    /\ rpc' = "failed"
    /\ runLog' = runLog \o <<Logged("getInstalledTasks"), Logged("setFailed")>>
    /\ UNCHANGED <<useServerParsing, pipelineFiles, fileIndex, definitions, defIndex, runTasks>>
    /\ UNCHANGED <<walkVars, parseVars, metaVars>>

\* Step 2: findPipelineFiles; without files the run ends with a warning
RunFindPipelineFiles(files) ==
    /\ rpc = "discover"
    /\ pipelineFiles' = files
    /\ runLog' = Append(runLog, Logged("findPipelineFiles"))
    /\ rpc' = IF Len(files) = 0 THEN "ended" ELSE "files"
    /\ fileIndex' = IF Len(files) = 0 THEN fileIndex ELSE 1
    /\ UNCHANGED <<useServerParsing, definitions, defIndex, runTasks>>
    /\ UNCHANGED <<walkVars, mapVars, parseVars, metaVars>>

\* Step 3, action side: resolvePipeline(pipelineFile) is called
RunResolvePipeline ==
    /\ InFileLoop
    /\ ~useServerParsing
    /\ ResolvePipeline(CurrentFile)
    /\ rpc' = "resolving"
    /\ runLog' = Append(runLog, Called("resolvePipeline", CurrentFile, 0, 0))
    /\ UNCHANGED <<useServerParsing, pipelineFiles, fileIndex, definitions, defIndex, runTasks>>
    /\ UNCHANGED <<mapVars, parseVars, metaVars>>

\* a slip: a file without build definitions is passed over
RunNoDefinitionsSkipsFile ==
    /\ InFileLoop
    /\ useServerParsing
    /\ fileIndex' = fileIndex + 1
    /\ runLog' = Append(runLog, Called("findBuildDefinitionsForFile", CurrentFile, 0, 0))
    /\ UNCHANGED <<useServerParsing, rpc, pipelineFiles, definitions, defIndex, runTasks>>
    /\ UNCHANGED <<walkVars, mapVars, parseVars, metaVars>>

\* Step 3, server side: no build definition refers to the file; the file is
\* parsed action-side
RunNoDefinitions ==
    /\ InFileLoop
    /\ useServerParsing
    /\ ResolvePipeline(CurrentFile)
    /\ rpc' = "resolving"
    /\ runLog' = runLog \o <<Called("findBuildDefinitionsForFile", CurrentFile, 0, 0),
                             Called("resolvePipeline", CurrentFile, 0, 0)>>
    /\ UNCHANGED <<useServerParsing, pipelineFiles, fileIndex, definitions, defIndex, runTasks>>
    /\ UNCHANGED <<mapVars, parseVars, metaVars>>

\* Step 3, server side: build definitions refer to the file
RunFoundDefinitions(defs) ==
    /\ InFileLoop
    /\ useServerParsing
    /\ Len(defs) > 0
    /\ definitions' = defs
    /\ defIndex' = 1
    /\ rpc' = "definitions"
    /\ runLog' = Append(runLog, Called("findBuildDefinitionsForFile", CurrentFile, 0,
                                        Len(defs)))
    /\ UNCHANGED <<useServerParsing, pipelineFiles, fileIndex, runTasks>>
    /\ UNCHANGED <<walkVars, mapVars, parseVars, metaVars>>

\* Step 3, server side: findBuildDefinitionsForFile rejects (getBuildApi)
RunFindDefinitionsFails ==
    /\ InFileLoop
    /\ useServerParsing
    /\ rpc' = "failed"
    /\ runLog' = runLog \o <<Called("findBuildDefinitionsForFile", CurrentFile, 0,
                                    Rejected),
                             Logged("setFailed")>>
    /\ UNCHANGED <<useServerParsing, pipelineFiles, fileIndex, definitions, defIndex, runTasks>>
    /\ UNCHANGED <<walkVars, mapVars, parseVars, metaVars>>

\* Step 3, server side: previewPipeline of the next definition returns tasks
\* (none when the preview fails: it catches its errors)
RunPreviewPipeline(tasks) ==
    /\ rpc = "definitions"
    /\ runTasks' = runTasks \o tasks
    /\ runLog' = Append(runLog, Called("previewPipeline", CurrentFile, definitions[defIndex],
                                        Len(tasks)))
    /\ IF defIndex < Len(definitions)
       THEN /\ defIndex' = defIndex + 1
            /\ UNCHANGED <<rpc, fileIndex, definitions>>
       ELSE /\ rpc' = "files"
            /\ fileIndex' = fileIndex + 1
            /\ definitions' = <<>>
            /\ defIndex' = 0
    /\ UNCHANGED <<useServerParsing, pipelineFiles>>
    /\ UNCHANGED <<walkVars, mapVars, parseVars, metaVars>>

\* Step 3: resolvePipeline has returned; its tasks are pushed onto allTasks
\* and the loop goes to the next file
RunTakeResolved ==
    /\ rpc = "resolving"
    /\ pc = "done"
    /\ runTasks' = runTasks \o allTasks
    /\ fileIndex' = fileIndex + 1
    /\ rpc' = "files"
    /\ pc' = "idle"
    /\ UNCHANGED <<useServerParsing, pipelineFiles, definitions, defIndex, runLog>>
    /\ UNCHANGED <<resolveTemplates, githubToken, entryFile, fsys, stack, allTasks, processedFiles,
                   externalTemplates, walkWarnings, parseLog, fetchLog>>
    /\ UNCHANGED <<mapVars, parseVars, metaVars>>

\* after the loop: no tasks were found; the run ends with a warning
RunNoTasks ==
    /\ rpc = "files"
    /\ fileIndex > Len(pipelineFiles)
    /\ Len(runTasks) = 0
    /\ rpc' = "ended"
    /\ UNCHANGED <<useServerParsing, pipelineFiles, fileIndex, definitions, defIndex, runTasks, runLog>>
    /\ UNCHANGED <<walkVars, mapVars, parseVars, metaVars>>

\* Step 4: createSnapshot(allTasks, 'azure-pipelines', job); Step 5 starts
RunCreateSnapshot ==
    /\ rpc = "files"
    /\ fileIndex > Len(pipelineFiles)
    /\ Len(runTasks) > 0
    /\ CreateSnapshot(runTasks, ManifestPath, JobId)
    /\ rpc' = "submitting"
    /\ runLog' = runLog \o <<Logged("createSnapshot"), Logged("submitSnapshot")>>
    /\ UNCHANGED <<useServerParsing, pipelineFiles, fileIndex, definitions, defIndex, runTasks>>
    /\ UNCHANGED <<walkVars, parseVars, metaVars>>

\* Step 5: submitSnapshot resolves; the run completes
RunSubmitted ==
    /\ rpc = "submitting"
    /\ rpc' = "completed"
    /\ UNCHANGED <<useServerParsing, pipelineFiles, fileIndex, definitions, defIndex, runTasks, runLog>>
    /\ UNCHANGED <<walkVars, mapVars, parseVars, metaVars>>

\* Step 5: submitSnapshot rejects; the run fails
RunSubmitFails ==
    /\ rpc = "submitting"
    /\ rpc' = "failed"
    /\ runLog' = Append(runLog, Logged("setFailed"))
    /\ UNCHANGED <<useServerParsing, pipelineFiles, fileIndex, definitions, defIndex, runTasks>>
    /\ UNCHANGED <<walkVars, mapVars, parseVars, metaVars>>

\* The organisations, workspaces and server answers of the runs

\* the definitions findBuildDefinitionsForFile may return for one file
MaxDefinitions == 2

RunListings ==
    {<<>>, <<BuiltIn(G1, "PowerShell", TaskVersion(2, 0, 0)),
             BuiltIn(G2, "Npm", TaskVersion(1, 0, 0))>>}

RunFileLists == {<<>>, <<"/w/a.yml">>, <<"/w/a.yml", "/w/b.yml">>}

DefinitionLists == {[i \in 1..k |-> 41 + i] : k \in 1..MaxDefinitions}

PreviewTasks == {<<>>, <<TaskRef(G1, "2", undefined)>>}

\* a pipeline file may name a.yml as a template
RunRefs == {ParsedTemplate("a.yml", undefined)}

InitRun ==
    /\ resolveTemplates \in BOOLEAN
    /\ githubToken = ""
    /\ WalkIdle
    /\ MapIdle
    /\ ParseIdle
    /\ MetadataIdle
    /\ useServerParsing \in BOOLEAN
    /\ RunIdle

NextRun ==
    \/ RunInvalidInputs
    \/ \E tasks \in RunListings : RunGetInstalledTasks(tasks)
    \/ RunGetInstalledTasksFails
    \/ \E files \in RunFileLists : RunFindPipelineFiles(files)
    \/ RunResolvePipeline
    \/ RunNoDefinitions
    \/ \E defs \in DefinitionLists : RunFoundDefinitions(defs)
    \/ RunFindDefinitionsFails
    \/ \E tasks \in PreviewTasks : RunPreviewPipeline(tasks)
    \/ SkipProcessed /\ UNCHANGED OutsideWalk
    \/ FileNotFound /\ UNCHANGED OutsideWalk
    \/ ParseFails /\ UNCHANGED OutsideWalk
    \/ ParseFile(RunRefs) /\ UNCHANGED OutsideWalk
    \/ ProcessExtends /\ UNCHANGED OutsideWalk
    \/ ProcessLocalTemplate /\ UNCHANGED OutsideWalk
    \/ FinishFile /\ UNCHANGED OutsideWalk
    \/ ReturnResolved /\ UNCHANGED OutsideWalk
    \/ RunTakeResolved
    \/ RunNoTasks
    \/ RunCreateSnapshot
    \/ RunSubmitted
    \/ RunSubmitFails

SpecRun == InitRun /\ [][NextRun]_vars

----------------------------------------------------------------------------
(* Properties of run() *)

CallsOf(call) == {i \in DOMAIN runLog : runLog[i].call = call}

\* C18: if fetching the task catalog fails, getInstalledTasks rejects and
\* run() ends failed through setFailed, without discovering pipeline files,
\* walking a template, creating a snapshot or submitting; and in every run a
\* submission comes only after getInstalledTasks has returned a catalog
C18_CatalogFailureAbortsRun ==
    /\ mpc = "failed" =>
           /\ rpc = "failed"
           /\ runLog = <<Logged("getInstalledTasks"), Logged("setFailed")>>
           /\ pipelineFiles = <<>>
           /\ pc = "idle" /\ parseLog = <<>> /\ fetchLog = <<>>
           /\ tasksIn = <<>> /\ snapshot = EmptyMap
    /\ \A i \in CallsOf("submitSnapshot") :
           /\ mpc = "mapped"
           /\ \E j \in CallsOf("getInstalledTasks") : j < i

\* the catalog could not be fetched and the run has failed
C18_Witness ==
    /\ mpc = "failed"
    /\ rpc = "failed"
    /\ runLog = <<Logged("getInstalledTasks"), Logged("setFailed")>>

\* the calls of findBuildDefinitionsForFile that found no definition
WithoutDefinitions ==
    {i \in CallsOf("findBuildDefinitionsForFile") : runLog[i].returned = 0}

IsPrefix(q, r) == Len(q) <= Len(r) /\ SubSeq(r, 1, Len(q)) = q

\* in every state: the file without definitions is handed to the walker
\* next, the preview API is never called for it, and createSnapshot receives
\* the accumulated task list
FallsBackToWalker ==
    /\ \A i \in WithoutDefinitions :
           /\ i < Len(runLog)
           /\ runLog[i + 1] = Called("resolvePipeline", runLog[i].file, 0, 0)
           /\ \A j \in CallsOf("previewPipeline") : runLog[j].file # runLog[i].file
    /\ mpc = "mapped" => tasksIn = runTasks

\* in every step: what resolvePipeline returned is appended to the task
\* list, and nothing is ever taken from that list
KeepsResolvedTasks ==
    /\ (rpc = "resolving" /\ pc = "done") => runTasks' = runTasks \o allTasks
    /\ IsPrefix(runTasks, runTasks')

\* C20: in server parsing mode, a pipeline file for which no build definition
\* is found is parsed action-side by the template walker, the tasks found
\* that way are part of the list passed to createSnapshot, and the preview
\* API is not called for that file
C20_NoDefinitionFallsBackToWalker ==
    [](useServerParsing => FallsBackToWalker)
        /\ [][useServerParsing => KeepsResolvedTasks]_vars

\* server mode: b.yml has build definitions, a.yml has none; the tasks of
\* a.yml found by the walker are in the list that createSnapshot received
C20_Witness ==
    /\ useServerParsing
    /\ rpc = "completed"
    /\ pipelineFiles = <<A, B>>
    /\ \E i \in WithoutDefinitions : runLog[i].file = A
    /\ \E j \in CallsOf("previewPipeline") : runLog[j].file = B
    /\ IsYaml(A)
    /\ Len(SelectSeq(tasksIn, LAMBDA t : t.sourceFile = "a.yml")) = Len(fsys[A].tasks)
    /\ Len(fsys[A].tasks) > 0

\* the calls of findBuildDefinitionsForFile that found definitions for which
\* every previewPipeline call has returned, each without a task
PreviewedEmpty ==
    {i \in CallsOf("findBuildDefinitionsForFile") :
        /\ runLog[i].returned > 0
        /\ i + runLog[i].returned <= Len(runLog)
        /\ \A k \in 1..runLog[i].returned :
               /\ runLog[i + k].call = "previewPipeline"
               /\ runLog[i + k].returned = 0}

\* run() has gone on after the previews of the call at i
PastPreviews(i) ==
    \/ i + runLog[i].returned < Len(runLog)
    \/ rpc \in {"ended", "submitting", "completed", "failed"}

\* C21: in server parsing mode, when build definitions were found for a file
\* and the preview returned no task for any of them, run() goes on with
\* resolvePipeline of that file
C21_Counterexample ==
    useServerParsing =>
        \A i \in PreviewedEmpty :
            PastPreviews(i) =>
                /\ i + runLog[i].returned < Len(runLog)
                /\ runLog[i + runLog[i].returned + 1]
                       = Called("resolvePipeline", runLog[i].file, 0, 0)

----------------------------------------------------------------------------
(* Properties of the catalog *)

Elems(q) == {q[i] : i \in DOMAIN q}

\* the listed records that getInstalledTasks does not skip
Listed == {r \in Elems(listing) : ~MissingRequiredFields(r)}

VersionText(r) ==
    ToString(r.version.major) \o "." \o ToString(r.version.minor)
        \o "." \o ToString(r.version.patch)

\* numeric comparison, component by component
VersionGeq(r, q) ==
    \/ r.version.major > q.version.major
    \/ /\ r.version.major = q.version.major
       /\ \/ r.version.minor > q.version.minor
          \/ /\ r.version.minor = q.version.minor
             /\ r.version.patch >= q.version.patch

\* the catalog has an entry under `key`, made from a highest record of S
HoldsHighest(key, S) ==
    /\ MapHas(taskMap, key)
    /\ \E r \in S :
         /\ \A q \in S : VersionGeq(r, q)
         /\ MapGet(taskMap, key).version = VersionText(r)
         /\ MapGet(taskMap, key).name = r.name
         /\ MapGet(taskMap, key).id = r.id

Named(n) == {r \in Listed : ToLowerCase(r.name) = n}

WithId(g) == {r \in Listed : ToLowerCase(r.id) = g}

OfMajor(S, m) == {r \in S : r.version.major = m}

\* C6: after getInstalledTasks, the entry under n@m is the highest record
\* named n with major m and the entry under n is the highest record named n,
\* versions being compared numerically component by component
C6_NameKeysHoldHighestVersion ==
    mpc = "catalog" =>
        \A r \in Listed :
            LET n == ToLowerCase(r.name)
                m == r.version.major
            IN  /\ HoldsHighest(n \o "@" \o ToString(m), OfMajor(Named(n), m))
                /\ HoldsHighest(n, Named(n))

\* 1.9.0, 2.0.0 and 1.10.0 of PowerShell are listed, 1.10.0 last
C6_Witness ==
    /\ mpc = "catalog"
    /\ Len(listing) = 3
    /\ \A i \in 1..3 : listing[i].name = "PowerShell" /\ listing[i].id = G1
    /\ VersionText(listing[1]) = "1.9.0"
    /\ VersionText(listing[2]) = "2.0.0"
    /\ VersionText(listing[3]) = "1.10.0"
    /\ MapGet(taskMap, "powershell@1").version = "1.10.0"
    /\ MapGet(taskMap, "powershell@2").version = "2.0.0"
    /\ MapGet(taskMap, "powershell").version = "2.0.0"

\* C7: after getInstalledTasks, the entry under g@m is the highest record with
\* id g and major m and the entry under g is the highest record with id g,
\* also when ids and names of the listed records do not correspond
C7_Counterexample ==
    mpc = "catalog" =>
        \A r \in Listed :
            LET g == ToLowerCase(r.id)
                m == r.version.major
            IN  /\ HoldsHighest(g \o "@" \o ToString(m), OfMajor(WithId(g), m))
                /\ HoldsHighest(g, WithId(g))

\* a record that the claim calls built-in
FlaggedBuiltIn(r) ==
    \/ r.serverOwned
    \/ r.definitionType = "metaTask"
    \/ /\ r.contributionIdentifier = undefined
       /\ r.author \in {"Microsoft", "Microsoft Corporation", undefined}

\* the canonical identifier by the three priorities
Canonical(r) ==
    IF r.contributionIdentifier # undefined THEN r.contributionIdentifier
    ELSE IF FlaggedBuiltIn(r) THEN "Microsoft.BuiltIn." \o r.name
    ELSE r.name

BareNamed(r) == r.contributionIdentifier = undefined /\ ~FlaggedBuiltIn(r)

\* C16: the canonical identifier of a catalog record is its
\* contributionIdentifier when it has one, built-in or not; otherwise
\* Microsoft.BuiltIn.{name} when the record is built-in; otherwise the bare
\* task name, with one warning. (The records of a listing here are of one
\* task in one version, so the catalog holds the first of them.)
C16_CanonicalIdentifierByPriority ==
    mpc = "catalog" =>
        /\ \A i \in DOMAIN taskMap.keys :
               MapGet(taskMap, taskMap.keys[i]).fullIdentifier = Canonical(listing[1])
        /\ listing # <<>> => MapHas(taskMap, "powershell")
        /\ catalogWarnings =
               [i \in DOMAIN SelectSeq(listing, BareNamed) |->
                   Warning("Task could not be fully resolved, using",
                           SelectSeq(listing, BareNamed)[i].name)]

\* a server-owned record with a contribution identifier, then a record of
\* another author without one
C16_Witness ==
    /\ mpc = "catalog"
    /\ Len(listing) = 2
    /\ listing[1].serverOwned /\ listing[1].contributionIdentifier = "pub.ext.contrib"
    /\ BareNamed(listing[2])
    /\ MapGet(taskMap, "powershell").fullIdentifier = "pub.ext.contrib"
    /\ Len(catalogWarnings) = 1

----------------------------------------------------------------------------
(* Properties of the mapper *)

Manifests == snapshot.manifests

ManifestName(sourceFile) == sourceFile \o ":" \o JobId

\* the entries of the manifest of a source file, as a Map from package URL
ResolvedOf(sourceFile) == MapGet(Manifests, ManifestName(sourceFile)).resolved

Resolves(t) == resolveTask(t.taskIdentifier) # null

\* the references a source file's manifest receives, in input order
RefsOf(sourceFile) ==
    SelectSeq(tasksIn, LAMBDA t : SourceFileOf(t, ManifestPath) = sourceFile)

SourceFiles == {SourceFileOf(t, ManifestPath) : t \in Elems(tasksIn)}

GivenVersion(t) ==
    IF Truthy(t.taskVersion) THEN t.taskVersion
    ELSE resolveTask(t.taskIdentifier).version

RECURSIVE CountChar(_, _)
CountChar(s, c) ==
    IF Len(s) = 0 THEN 0
    ELSE (IF Ch(s, 1) = c THEN 1 ELSE 0) + CountChar(SubSeq(s, 2, Len(s)), c)

\* the normalized version, told by the number of dots
Normalized(v) ==
    IF CountChar(v, ".") = 0 THEN v \o ".*.*"
    ELSE IF CountChar(v, ".") = 1 THEN v \o ".*"
    ELSE v

Wildcarded(t) == CountChar(Normalized(GivenVersion(t)), "*") > 0

\* the package URL of the direct entry of a reference that resolves
DirectUrl(t) ==
    PackageUrl(resolveTask(t.taskIdentifier).fullIdentifier, Normalized(GivenVersion(t)))

DirectUrls(m) == {k \in Elems(m.keys) : MapGet(m, k).relationship = "direct"}

IndirectUrls(m) == {k \in Elems(m.keys) : MapGet(m, k).relationship = "indirect"}

HasDependencies(d) == "dependencies" \in DOMAIN d

\* C3: a manifest that receives a single reference, with a wildcard in its
\* normalized version, holds exactly two entries: the direct one under the
\* wildcard version, which lists the other, and an indirect one under a
\* concrete installed version
C3_WildcardYieldsDirectAndIndirect ==
    mpc = "mapped" =>
        \A f \in SourceFiles :
            LET refs == RefsOf(f)
                m == ResolvedOf(f)
            IN  (Len(refs) = 1 /\ Resolves(refs[1]) /\ Wildcarded(refs[1])) =>
                    /\ Len(m.keys) = 2
                    /\ DirectUrls(m) = {DirectUrl(refs[1])}
                    /\ CountChar(DirectUrl(refs[1]), "*") > 0
                    /\ \E i \in IndirectUrls(m) : \E r \in Listed :
                         /\ IndirectUrls(m) = {i}
                         /\ i = PackageUrl(resolveTask(refs[1].taskIdentifier).fullIdentifier,
                                           VersionText(r))
                         /\ MapGet(m, i).package_url = i
                         /\ HasDependencies(MapGet(m, DirectUrl(refs[1])))
                         /\ i \in Elems(MapGet(m, DirectUrl(refs[1])).dependencies)

\* PowerShell@1 alone, with 1.9.0 and 1.10.0 installed
C3_Witness ==
    /\ mpc = "mapped"
    /\ tasksIn = <<TaskRef("PowerShell", "1", undefined)>>
    /\ Len(listing) = 2
    /\ MapHas(ResolvedOf(ManifestPath),
              "pkg:generic/azure-pipelines/Microsoft.BuiltIn.PowerShell@1.*.*")
    /\ MapHas(ResolvedOf(ManifestPath),
              "pkg:generic/azure-pipelines/Microsoft.BuiltIn.PowerShell@1.10.0")

\* the major component of the version of a wildcarded reference
MajorOf(t) == ParseInt(Split(Normalized(GivenVersion(t)), ".")[1])

\* the listed records of the task a reference resolves to
RecordsOf(t) == WithId(ToLowerCase(resolveTask(t.taskIdentifier).id))

\* C4: for every wildcarded reference to a task T with major M, the indirect
\* entry that its direct entry lists carries the highest installed version of
\* T with major M, whenever T is installed with major M
C4_Counterexample ==
    mpc = "mapped" =>
        \A t \in Elems(tasksIn) :
            (Resolves(t) /\ Wildcarded(t)) =>
                LET m == ResolvedOf(SourceFileOf(t, ManifestPath))
                    S == OfMajor(RecordsOf(t), MajorOf(t))
                    fullIdentifier == resolveTask(t.taskIdentifier).fullIdentifier
                IN  S # {} =>
                        /\ MapHas(m, DirectUrl(t))
                        /\ HasDependencies(MapGet(m, DirectUrl(t)))
                        /\ \E r \in S :
                             /\ \A q \in S : VersionGeq(r, q)
                             /\ MapGet(m, DirectUrl(t)).dependencies =
                                    <<PackageUrl(fullIdentifier, VersionText(r))>>

\* C5: the direct entries of a source file's manifest are exactly one per
\* distinct (canonical identifier, normalized version) pair among the
\* references of that file that resolve, and every source file has a manifest
C5_OneDirectEntryPerTriple ==
    mpc = "mapped" =>
        /\ Elems(Manifests.keys) = {ManifestName(f) : f \in SourceFiles}
        /\ \A f \in SourceFiles :
             /\ MapGet(Manifests, ManifestName(f)).file.source_location = f
             /\ DirectUrls(ResolvedOf(f)) =
                    {DirectUrl(t) : t \in {u \in Elems(RefsOf(f)) : Resolves(u)}}
             /\ \A t, u \in {v \in Elems(RefsOf(f)) : Resolves(v)} :
                    DirectUrl(t) = DirectUrl(u) <=>
                        /\ resolveTask(t.taskIdentifier).fullIdentifier =
                               resolveTask(u.taskIdentifier).fullIdentifier
                        /\ Normalized(GivenVersion(t)) = Normalized(GivenVersion(u))

\* PowerShell@1 and powershell@1.*.* in the pipeline file: one direct entry
C5_Witness ==
    /\ mpc = "mapped"
    /\ tasksIn = <<TaskRef("PowerShell", "1", undefined),
                   TaskRef("powershell", "1.*.*", undefined)>>
    /\ Listed # {}
    /\ Cardinality(DirectUrls(ResolvedOf(ManifestPath))) = 1

\* C13: createSnapshot produces exactly one manifest per distinct sourceFile
\* of the input references, a reference without sourceFile counting under
\* manifestPath; the manifest of a source file is stored under
\* '{sourceFile}:{jobId}', has that key as its name and the source file as
\* its file.source_location
C13_OneManifestPerSourceFile ==
    mpc = "mapped" =>
        /\ Len(Manifests.keys) = Cardinality(SourceFiles)
        /\ \A i \in DOMAIN Manifests.keys :
               \E f \in SourceFiles : Manifests.keys[i] = f \o ":" \o JobId
        /\ \A f \in SourceFiles :
               /\ MapHas(Manifests, f \o ":" \o JobId)
               /\ MapGet(Manifests, f \o ":" \o JobId).name = f \o ":" \o JobId
               /\ MapGet(Manifests, f \o ":" \o JobId).file.source_location = f

\* a reference from a.yml and one without source file: two manifests
C13_Witness ==
    /\ mpc = "mapped"
    /\ \E i, j \in DOMAIN tasksIn :
           /\ tasksIn[i].sourceFile = "a.yml"
           /\ tasksIn[j].sourceFile = undefined
    /\ Len(Manifests.keys) = 2
    /\ MapHas(Manifests, "a.yml:job")
    /\ MapHas(Manifests, "azure-pipelines:job")

\* the references with their identifiers in lower case
LowerCased(tasks) ==
    [i \in DOMAIN tasks |->
        [tasks[i] EXCEPT !.taskIdentifier = ToLowerCase(tasks[i].taskIdentifier)]]

\* C14: identifier resolution is invariant under letter case: the manifests
\* of a list of references (package URLs, relationships, dependencies) are
\* those of the same list with every identifier written in lower case, hence
\* those of any list that differs from it only in the case of identifiers
C14_ResolutionIgnoresCase ==
    mpc = "mapped" =>
        createSnapshot(LowerCased(tasksIn), ManifestPath, JobId).snapshot.manifests
            = Manifests

\* POWERSHELL@1 resolves against a catalog that lists PowerShell
C14_Witness ==
    /\ mpc = "mapped"
    /\ tasksIn = <<TaskRef("POWERSHELL", "1", undefined)>>
    /\ MapHas(taskMap, "powershell")
    /\ Cardinality(DirectUrls(ResolvedOf(ManifestPath))) = 1
    /\ Cardinality(IndirectUrls(ResolvedOf(ManifestPath))) = 1

\* the key that the last dot-separated part of an identifier is looked up by
LastKey(identifier) == ToLowerCase(LastPart(identifier))

\* a dotted identifier that is no catalog key while its last part is one
ResolvesByLastPart(identifier) ==
    /\ Includes(identifier, ".")
    /\ ~MapHas(taskMap, ToLowerCase(identifier))
    /\ MapHas(taskMap, LastKey(identifier))

\* the direct package URL of reference t when it resolves to catalog entry e
DirectUrlWith(t, e) ==
    PackageUrl(e.fullIdentifier,
               Normalized(IF Truthy(t.taskVersion) THEN t.taskVersion ELSE e.version))

\* C15: a dotted identifier that is not itself a catalog key resolves to the
\* catalog entry keyed by its last dot-separated part (a task name or a
\* GUID) whenever that part is a catalog key: the manifest holds the direct
\* entry of that catalog entry
C15_DottedResolvesByLastPart ==
    mpc = "mapped" =>
        \A i \in DOMAIN tasksIn :
            ResolvesByLastPart(tasksIn[i].taskIdentifier) =>
                /\ resolveTask(tasksIn[i].taskIdentifier)
                       = MapGet(taskMap, LastKey(tasksIn[i].taskIdentifier))
                /\ DirectUrlWith(tasksIn[i],
                                 MapGet(taskMap, LastKey(tasksIn[i].taskIdentifier)))
                       \in DirectUrls(ResolvedOf(SourceFileOf(tasksIn[i], ManifestPath)))

\* 'some.publisher.<guid>' resolves to the task whose id is <guid>
C15_Witness ==
    /\ mpc = "mapped"
    /\ tasksIn = <<TaskRef("some.publisher." \o G1, "1", undefined)>>
    /\ ~MapHas(taskMap, "some.publisher." \o G1)
    /\ MapHas(taskMap, G1)
    /\ MapGet(taskMap, G1).id = G1
    /\ DirectUrls(ResolvedOf(ManifestPath))
           = {"pkg:generic/azure-pipelines/Microsoft.BuiltIn.PowerShell@1.*.*"}

\* the input list without the references that do not resolve
Resolvable == SelectSeq(tasksIn, Resolves)

Unresolved == SelectSeq(tasksIn, LAMBDA t : ~Resolves(t))

\* C8: a reference that matches no catalog entry adds no entry to any
\* manifest and logs exactly one warning; a snapshot is still produced, and
\* the manifests of the other references are what they are without it
C8_UnresolvedReferenceIsDropped ==
    mpc = "mapped" =>
        LET without == createSnapshot(Resolvable, ManifestPath, JobId)
        IN  /\ Len(mapWarnings) = Len(Unresolved)
            /\ \A t \in Elems(Unresolved) :
                   Count(mapWarnings, Warning("Could not resolve task", t.taskIdentifier)) =
                       Len(SelectSeq(Unresolved,
                                     LAMBDA u : u.taskIdentifier = t.taskIdentifier))
            /\ without.warnings = <<>>
            /\ \A n \in Elems(Manifests.keys) :
                   IF MapHas(without.snapshot.manifests, n)
                   THEN MapGet(Manifests, n) = MapGet(without.snapshot.manifests, n)
                   ELSE MapGet(Manifests, n).resolved = NewMap
            /\ \A n \in Elems(without.snapshot.manifests.keys) : MapHas(Manifests, n)
            /\ \A t \in Elems(Unresolved) : \A n \in Elems(Manifests.keys) :
                   \A k \in Elems(MapGet(Manifests, n).resolved.keys) :
                       ~StartsWith(k, PackageUrl(t.taskIdentifier, ""))

\* an unknown task before PowerShell@1 in the same file
C8_Witness ==
    /\ mpc = "mapped"
    /\ tasksIn = <<TaskRef("Unknown", "1", undefined),
                   TaskRef("PowerShell", "1", undefined)>>
    /\ Listed # {}
    /\ Len(mapWarnings) = 1
    /\ Len(ResolvedOf(ManifestPath).keys) = 2

\* C10: a reference that resolves is entered under its version with `.*.*`
\* appended when it has one component and `.*` when it has two, and under the
\* version as given when it has three or more; in the last case, when the
\* version has no `*`, the entry is direct without a dependencies field, and
\* it is the only entry of a manifest that receives no other reference
C10_NormalizeVersionByComponents ==
    mpc = "mapped" =>
        \A t \in Elems(Resolvable) :
            LET m == ResolvedOf(SourceFileOf(t, ManifestPath))
                v == GivenVersion(t)
                url == PackageUrl(resolveTask(t.taskIdentifier).fullIdentifier,
                                  Normalized(v))
            IN  /\ MapHas(m, url)
                /\ MapGet(m, url).relationship = "direct"
                /\ (CountChar(v, ".") >= 2 /\ CountChar(v, "*") = 0) =>
                       /\ ~HasDependencies(MapGet(m, url))
                       /\ Len(RefsOf(SourceFileOf(t, ManifestPath))) = 1 =>
                              m.keys = <<url>>

\* PowerShell@1.9 and PowerShell@1.10.0 in the pipeline file
C10_Witness ==
    /\ mpc = "mapped"
    /\ tasksIn = <<TaskRef("PowerShell", "1.9", undefined),
                   TaskRef("PowerShell", "1.10.0", undefined)>>
    /\ Len(listing) = 2
    /\ MapHas(ResolvedOf(ManifestPath),
              "pkg:generic/azure-pipelines/Microsoft.BuiltIn.PowerShell@1.9.*")
    /\ ~HasDependencies(MapGet(ResolvedOf(ManifestPath),
              "pkg:generic/azure-pipelines/Microsoft.BuiltIn.PowerShell@1.10.0"))

----------------------------------------------------------------------------
(* PipelineParser *)

\* The values doc.toJSON() is made of: strings, arrays and objects
Str(v) == [t |-> "str", v |-> v]
Arr(items) == [t |-> "arr", items |-> items]
Obj(fields) == [t |-> "obj", fields |-> fields]

\* JavaScript truthiness of a value: every array and object, every non-empty string
NodeTruthy(n) == n.t \in {"arr", "obj"} \/ (n.t = "str" /\ n.v # "")

\* `obj[key]` is truthy
HasTruthy(obj, key) ==
    obj.t = "obj" /\ key \in DOMAIN obj.fields /\ NodeTruthy(obj.fields[key])

\* a property read as a string; undefined when it is absent
TextOf(obj, key) ==
    IF obj.t = "obj" /\ key \in DOMAIN obj.fields /\ obj.fields[key].t = "str"
    THEN obj.fields[key].v
    ELSE undefined

\* parseTask on a task string
SplitTask(taskString, parts) ==
    IF Includes(taskString, "@")
    THEN ParsedTask(parts[1], parts[2])
    ELSE ParsedTask(taskString, undefined)

parseTask(taskStep) ==
    SplitTask(TextOf(taskStep, "task"), Split(TextOf(taskStep, "task"), "@"))

\* parseTemplateReference, of a string or of an object with a template property
parseTemplateReference(templateRef) ==
    IF templateRef.t = "str" THEN ParsedTemplate(templateRef.v, undefined)
    ELSE ParsedTemplate(TextOf(templateRef, "template"), TextOf(templateRef, "repository"))

keysToProcess ==
    <<"stages", "jobs", "steps", "pool", "strategy", "matrix", "deployment", "deploy",
      "preDeploymentHook", "postDeploymentHook", "on", "onSuccess", "onFailure",
      "success", "failure", "finally">>

\* tasks.push(parseTask(obj)); a task property that is no string makes
\* taskString.includes throw
PushTask(acc, obj) ==
    IF obj.fields["task"].t = "str"
    THEN [acc EXCEPT !.tasks = Append(@, parseTask(obj))]
    ELSE [acc EXCEPT !.threw = TRUE]

PushTemplate(acc, obj) ==
    IF HasTruthy(obj, "template")
    THEN [acc EXCEPT !.templates = Append(@, parseTemplateReference(obj))]
    ELSE acc

RECURSIVE extractTasks(_, _)
RECURSIVE ExtractItems(_, _, _)
RECURSIVE ExtractKeys(_, _, _)

\* the tasks and templates arrays after extractTasks(obj, tasks, templates)
extractTasks(obj, acc) ==
    IF acc.threw \/ obj.t \notin {"arr", "obj"} THEN acc
    ELSE IF HasTruthy(obj, "task") THEN PushTask(acc, obj)
    ELSE IF obj.t = "arr" THEN ExtractItems(obj.items, 1, PushTemplate(acc, obj))
    ELSE ExtractKeys(obj, SelectSeq(keysToProcess, LAMBDA key : HasTruthy(obj, key)),
                     PushTemplate(acc, obj))

\* for (const item of obj), from the i-th item on
ExtractItems(items, i, acc) ==
    IF i > Len(items) THEN acc
    ELSE ExtractItems(items, i + 1, extractTasks(items[i], acc))

\* for (const key of keysToProcess) if (obj[key]), over the keys of
\* keysToProcess that obj has with a truthy value, in the order of keysToProcess
ExtractKeys(obj, keys, acc) ==
    IF Len(keys) = 0 THEN acc
    ELSE ExtractKeys(obj, Tail(keys), extractTasks(obj.fields[Head(keys)], acc))

\* the extends template of the document, if it has one
ExtendsOf(pipelineData) ==
    IF HasTruthy(pipelineData, "extends")
    THEN <<parseTemplateReference(pipelineData.fields["extends"])>>
    ELSE <<>>

\* what parsePipelineFile makes of the extracted arrays
ParseResult(pipelineData, acc) ==
    IF acc.threw THEN Unparseable
    ELSE ParsedPipeline(acc.tasks, ExtendsOf(pipelineData), acc.templates)

parsePipelineFile(pipelineData) ==
    ParseResult(pipelineData,
                extractTasks(pipelineData,
                             [tasks |-> <<>>, templates |-> <<>>, threw |-> FALSE]))

\* parsePipelineFile on a file whose content parses to pipelineData
ParsePipelineFile(pipelineData) ==
    /\ yamlDoc = <<>> /\ parsedDoc = <<>>
    /\ yamlDoc' = <<pipelineData>>
    /\ parsedDoc' = <<parsePipelineFile(pipelineData)>>

\* parsePipelineFile when readFileSync throws: the error is rethrown
ParsePipelineFileThrows ==
    /\ yamlDoc = <<>> /\ parsedDoc = <<>>
    /\ yamlDoc' = yamlDoc
    /\ parsedDoc' = <<Unparseable>>

----------------------------------------------------------------------------
(* The parser as a specification *)

MaxJobs == 2

\* where the steps of a job may sit, as the keys from the job down to `steps`
StepContainers ==
    {<<"steps">>,
     <<"strategy", "runOnce", "deploy", "steps">>,
     <<"strategy", "rolling", "deploy", "steps">>,
     <<"on", "success", "steps">>,
     <<"on", "failure", "steps">>}

TaskStrings == {"NodeTool@0", "MyTask", "A@1@2"}

\* a task step, a script step, a template step
StepNodes ==
    {Obj("task" :> Str(ts)) : ts \in TaskStrings}
        \cup {Obj("script" :> Str("echo")), Obj("template" :> Str("t.yml"))}

RECURSIVE Wrap(_, _)
\* the object with `step` as the only step under the keys of `path`
Wrap(path, step) ==
    IF Len(path) = 0 THEN Arr(<<step>>)
    ELSE Obj(Head(path) :> Wrap(Tail(path), step))

JobNodes == {Wrap(path, step) : path \in StepContainers, step \in StepNodes}

\* one stage with the given jobs
Document(jobNodes) ==
    Obj("stages" :> Arr(<<Obj(("stage" :> Str("Build")) @@ ("jobs" :> Arr(jobNodes)))>>))

Documents == {Document(jobNodes) : jobNodes \in SeqsUpTo(JobNodes, MaxJobs)}

InitParse ==
    /\ resolveTemplates = FALSE
    /\ githubToken = ""
    /\ WalkIdle
    /\ MapIdle
    /\ ParseIdle
    /\ MetadataIdle
    /\ NoRun

NextParse ==
    \/ (\E pipelineData \in Documents : ParsePipelineFile(pipelineData))
           /\ UNCHANGED OutsideParse
    \/ ParsePipelineFileThrows /\ UNCHANGED OutsideParse

SpecParse == InitParse /\ [][NextParse]_vars

----------------------------------------------------------------------------
(* Properties of the parser *)

RECURSIVE SeqOf(_)
\* the elements of a finite set, in some order
SeqOf(S) ==
    IF S = {} THEN <<>>
    ELSE <<CHOOSE x \in S : TRUE>> \o SeqOf(S \ {CHOOSE x \in S : TRUE})

\* the values directly under a node: the items of an array, the properties
\* of an object, whatever their keys
ChildrenOf(n) ==
    IF n.t = "arr" THEN n.items
    ELSE IF n.t = "obj" THEN [i \in 1..Len(SeqOf(DOMAIN n.fields)) |->
                                 n.fields[SeqOf(DOMAIN n.fields)[i]]]
    ELSE <<>>

CarriesTask(n) == n.t = "obj" /\ "task" \in DOMAIN n.fields

RECURSIVE CountTaskNodes(_)
RECURSIVE CountTaskNodesIn(_, _)
\* the number of nodes of a document that carry a task field
CountTaskNodes(n) ==
    (IF CarriesTask(n) THEN 1 ELSE 0) + CountTaskNodesIn(ChildrenOf(n), 1)

CountTaskNodesIn(nodes, i) ==
    IF i > Len(nodes) THEN 0
    ELSE CountTaskNodes(nodes[i]) + CountTaskNodesIn(nodes, i + 1)

RECURSIVE TaskTexts(_)
\* the task strings of a document
TaskTexts(n) ==
    (IF CarriesTask(n) THEN {n.fields["task"].v} ELSE {})
        \cup UNION {TaskTexts(ChildrenOf(n)[i]) : i \in DOMAIN ChildrenOf(n)}

Parsed == parsedDoc # <<>> /\ yamlDoc # <<>>

\* C11: parsePipelineFile returns exactly as many task entries as the
\* document has nodes that carry a task field, under every container
C11_Counterexample ==
    Parsed => Len(parsedDoc[1].tasks) = CountTaskNodes(yamlDoc[1])

\* the text before the first '@', and all the text after it
AtFirstAt(taskString) ==
    IF IndexFrom(taskString, "@", 1) = 0 THEN ParsedTask(taskString, undefined)
    ELSE ParsedTask(SubSeq(taskString, 1, IndexFrom(taskString, "@", 1) - 1),
                    SubSeq(taskString, IndexFrom(taskString, "@", 1) + 1, Len(taskString)))

\* C12: a task entry has the text before the first '@' as its identifier and
\* all the text after the first '@' as its version, undefined without '@'
C12_Counterexample ==
    Parsed =>
        \A i \in DOMAIN parsedDoc[1].tasks :
            \E ts \in TaskTexts(yamlDoc[1]) : parsedDoc[1].tasks[i] = AtFirstAt(ts)

----------------------------------------------------------------------------
(* AzureDevOpsClient: marketplace metadata of extensions *)

ExtensionMetadata(publisherId, extensionId, repositoryUrl) ==
    [publisherId |-> publisherId, extensionId |-> extensionId,
     repositoryUrl |-> repositoryUrl]

CacheKey(publisherId, extensionId) == publisherId \o "." \o extensionId

\* extensionMetadataCache.set(cacheKey, metadata)
CacheSet(cache, cacheKey, metadata) ==
    [k \in DOMAIN cache \cup {cacheKey} |-> IF k = cacheKey THEN metadata ELSE cache[k]]

\* a call on the client: getExtensionMetadata ("get") or
\* fetchExtensionMetadata ("fetch"); `by` is the fetchExtensionMetadata call
\* that made it, 0 for a call from outside; `at` is the await it stands at
MetaCall(kind, by, publisherId, extensionId, at, metadata, outcome) ==
    [kind |-> kind, by |-> by, publisherId |-> publisherId, extensionId |-> extensionId,
     at |-> at, metadata |-> metadata, outcome |-> outcome]

\* getExtensionMetadata up to its first await: the cached metadata is
\* returned, or the call goes on to getGalleryApi
StartGet(publisherId, extensionId, by) ==
    IF CacheKey(publisherId, extensionId) \in DOMAIN extensionMetadataCache
    THEN MetaCall("get", by, publisherId, extensionId, "returned",
                  extensionMetadataCache[CacheKey(publisherId, extensionId)], "cached")
    ELSE MetaCall("get", by, publisherId, extensionId, "getGalleryApi",
                  ExtensionMetadata(publisherId, extensionId, undefined), "pending")

MaxMetaCalls == 3     \* calls made on one client, those of its own included

\* getExtensionMetadata(publisherId, extensionId) is called
GetExtensionMetadata(publisherId, extensionId) ==
    /\ Len(metaCalls) < MaxMetaCalls
    /\ metaCalls' = Append(metaCalls, StartGet(publisherId, extensionId, 0))
    /\ UNCHANGED <<extensionMetadataCache, marketplaceLog>>

RECURSIVE SetOf(_, _)
\* new Set(extensionKeys) in insertion order
SetOf(extensionKeys, acc) ==
    IF Len(extensionKeys) = 0 THEN acc
    ELSE SetOf(Tail(extensionKeys),
               IF \E n \in DOMAIN acc : acc[n] = Head(extensionKeys) THEN acc
               ELSE Append(acc, Head(extensionKeys)))

\* const [publisher, ...extensionParts] = extKey.split('.')
PublisherOf(extKey) == Split(extKey, ".")[1]
ExtensionOf(extKey) == Join(Tail(Split(extKey, ".")), ".")

RECURSIVE StartGets(_, _)
\* the getExtensionMetadata calls of the loop over the set, for the keys
\* that have a publisher and an extension
StartGets(extensions, by) ==
    IF Len(extensions) = 0 THEN <<>>
    ELSE (IF PublisherOf(Head(extensions)) = "" \/ ExtensionOf(Head(extensions)) = ""
          THEN <<>>
          ELSE <<StartGet(PublisherOf(Head(extensions)), ExtensionOf(Head(extensions)), by)>>)
         \o StartGets(Tail(extensions), by)

NoMetadata == ExtensionMetadata("", "", undefined)

\* fetchExtensionMetadata(extensionKeys) is called: without keys it returns
\* the cache at once, else it starts one getExtensionMetadata per distinct
\* key and awaits them all
FetchExtensionMetadata(extensionKeys) ==
    /\ metaCalls' =
           IF Len(extensionKeys) = 0
           THEN Append(metaCalls, MetaCall("fetch", 0, "", "", "returned", NoMetadata, "done"))
           ELSE Append(metaCalls, MetaCall("fetch", 0, "", "", "awaiting", NoMetadata, "pending"))
                \o StartGets(SetOf(extensionKeys, <<>>), Len(metaCalls) + 1)
    /\ Len(metaCalls') <= MaxMetaCalls
    /\ UNCHANGED <<extensionMetadataCache, marketplaceLog>>

KeyOf(i) == CacheKey(metaCalls[i].publisherId, metaCalls[i].extensionId)

\* getGalleryApi resolves; galleryApi.getExtension is called
GalleryApiResolves(i) ==
    /\ metaCalls[i].at = "getGalleryApi"
    /\ metaCalls' = [metaCalls EXCEPT ![i].at = "getExtension"]
    /\ marketplaceLog' = Append(marketplaceLog, KeyOf(i))
    /\ UNCHANGED extensionMetadataCache

\* the rest of getExtensionMetadata after the try block: the metadata is
\* cached and returned
CacheAndReturn(i, metadata, outcome) ==
    /\ extensionMetadataCache' = CacheSet(extensionMetadataCache, KeyOf(i), metadata)
    /\ metaCalls' = [metaCalls EXCEPT ![i].at = "returned", ![i].metadata = metadata,
                                      ![i].outcome = outcome]

\* a slip: getGalleryApi is awaited outside the try block, its rejection
\* is the call's
GalleryApiRejectsUncaught(i) ==
    /\ metaCalls[i].at = "getGalleryApi"
    /\ metaCalls' = [metaCalls EXCEPT ![i].at = "threw", ![i].outcome = "failed"]
    /\ UNCHANGED <<extensionMetadataCache, marketplaceLog>>

\* getGalleryApi rejects; the catch block logs at debug level
GalleryApiRejects(i) ==
    /\ metaCalls[i].at = "getGalleryApi"
    /\ CacheAndReturn(i, metaCalls[i].metadata, "failed")
    /\ UNCHANGED marketplaceLog

\* getExtension resolves; sourceLink is the value of the property
\* Microsoft.VisualStudio.Services.Links.Source of the latest version,
\* undefined when the answer has none
GetExtensionResolves(i, sourceLink) ==
    /\ metaCalls[i].at = "getExtension"
    /\ CacheAndReturn(i, IF Truthy(sourceLink)
                         THEN [metaCalls[i].metadata EXCEPT !.repositoryUrl = sourceLink]
                         ELSE metaCalls[i].metadata,
                      "fetched")
    /\ UNCHANGED marketplaceLog

\* getExtension rejects; the catch block logs at debug level
GetExtensionRejects(i) ==
    /\ metaCalls[i].at = "getExtension"
    /\ CacheAndReturn(i, metaCalls[i].metadata, "failed")
    /\ UNCHANGED marketplaceLog

\* Promise.all of fetchExtensionMetadata resolves; the cache is returned
FetchReturns(i) ==
    /\ metaCalls[i].kind = "fetch"
    /\ metaCalls[i].at = "awaiting"
    /\ \A j \in DOMAIN metaCalls : metaCalls[j].by = i => metaCalls[j].at = "returned"
    /\ metaCalls' = [metaCalls EXCEPT ![i].at = "returned", ![i].outcome = "done"]
    /\ UNCHANGED <<extensionMetadataCache, marketplaceLog>>

\* The extensions asked for and the marketplace's answers
ExtensionKeyLists ==
    {<<>>, <<"p.e1">>, <<"p.e1", "p.e2">>, <<"p.e2", "solo", "p.e2">>}

SourceLinks == {undefined, "https://github.com/p/e"}

InitMetadata ==
    /\ resolveTemplates = TRUE
    /\ githubToken = ""
    /\ WalkIdle
    /\ MapIdle
    /\ ParseIdle
    /\ MetadataIdle
    /\ NoRun

NextMetadata ==
    \/ (\E e \in {"e1", "e2"} : GetExtensionMetadata("p", e)) /\ UNCHANGED OutsideMetadata
    \/ (\E extensionKeys \in ExtensionKeyLists :
            FetchExtensionMetadata(extensionKeys)) /\ UNCHANGED OutsideMetadata
    \/ (\E i \in DOMAIN metaCalls : GalleryApiResolves(i)) /\ UNCHANGED OutsideMetadata
    \/ (\E i \in DOMAIN metaCalls : GalleryApiRejects(i)) /\ UNCHANGED OutsideMetadata
    \/ (\E i \in DOMAIN metaCalls : \E sourceLink \in SourceLinks :
            GetExtensionResolves(i, sourceLink)) /\ UNCHANGED OutsideMetadata
    \/ (\E i \in DOMAIN metaCalls : GetExtensionRejects(i)) /\ UNCHANGED OutsideMetadata
    \/ (\E i \in DOMAIN metaCalls : FetchReturns(i)) /\ UNCHANGED OutsideMetadata

SpecMetadata == InitMetadata /\ [][NextMetadata]_vars

----------------------------------------------------------------------------
(* Properties of the walk with external templates *)

\* the next template reference names a repository as owner/repo and a
\* credential is configured
TrackableNext ==
    /\ AtTemplate
    /\ Truthy(CurrentTemplate.repository)
    /\ githubToken # ""
    /\ Includes(CurrentTemplate.repository, "/")

\* the entry of externalTemplates for the template reference t
RecordOf(t) ==
    [owner |-> SubSeq(t.repository, 1, IndexFrom(t.repository, "/", 1) - 1),
     repo |-> SubSeq(t.repository, IndexFrom(t.repository, "/", 1) + 1, Len(t.repository)),
     path |-> t.path,
     ref |-> IF t.ref = undefined THEN "refs/heads/main" ELSE t.ref]

\* the step records the reference and has not asked for its content yet
RecordedBeforeFetch ==
    /\ externalTemplates' = Append(externalTemplates, RecordOf(CurrentTemplate))
    /\ fetchLog' = fetchLog

\* the owner/repo references of the parsed local file p
TrackableIn(p) ==
    {fsys[p].templates[n] : n \in {m \in DOMAIN fsys[p].templates :
        /\ Truthy(fsys[p].templates[m].repository)
        /\ Includes(fsys[p].templates[m].repository, "/")}}

\* every download asked for so far is that of a recorded reference, whatever
\* its outcome; in the result every owner/repo reference of a parsed local
\* file is recorded and every recorded reference was asked for
RecordedWhateverTheFetch ==
    /\ Len(fetchLog) <= Len(externalTemplates)
    /\ \A n \in DOMAIN fetchLog :
           /\ fetchLog[n].owner = externalTemplates[n].owner
           /\ fetchLog[n].repo = externalTemplates[n].repo
           /\ fetchLog[n].path = externalTemplates[n].path
    /\ (pc = "done" /\ resolveTemplates) =>
           /\ Len(fetchLog) = Len(externalTemplates)
           /\ \A p \in LocalFiles :
                  (IsYaml(p) /\ Count(parseLog, p) > 0) =>
                      \A t \in TrackableIn(p) :
                          Count(externalTemplates, RecordOf(t)) > 0

----------------------------------------------------------------------------
(* Properties of the marketplace metadata cache *)

\* the metadata of a call without a repository URL
WithoutUrl(c) == ExtensionMetadata(c.publisherId, c.extensionId, undefined)

\* the step in which the fetch of a getExtensionMetadata call fails returns
\* metadata without a URL to the caller and leaves it in the cache
FailureIsCached ==
    \A i \in DOMAIN metaCalls :
        (/\ metaCalls[i].kind = "get"
         /\ metaCalls[i].outcome = "pending"
         /\ metaCalls'[i].outcome = "failed") =>
            /\ metaCalls'[i].at = "returned"
            /\ metaCalls'[i].metadata = WithoutUrl(metaCalls[i])
            /\ KeyOf(i) \in DOMAIN extensionMetadataCache'
            /\ extensionMetadataCache'[KeyOf(i)] = WithoutUrl(metaCalls[i])

\* a getExtensionMetadata call made when the cache has its key returns the
\* cached metadata in the same step, and the step asks the marketplace nothing
CachedIsReturned ==
    \A i \in DOMAIN metaCalls' \ DOMAIN metaCalls :
        (/\ metaCalls'[i].kind = "get"
         /\ CacheKey(metaCalls'[i].publisherId, metaCalls'[i].extensionId)
                \in DOMAIN extensionMetadataCache) =>
            /\ metaCalls'[i].at = "returned"
            /\ metaCalls'[i].metadata =
                   extensionMetadataCache[CacheKey(metaCalls'[i].publisherId,
                                                   metaCalls'[i].extensionId)]
            /\ marketplaceLog' = marketplaceLog

\* a call is at one of its awaits or has returned: none has thrown
CallsReturn ==
    \A i \in DOMAIN metaCalls :
        metaCalls[i].at \in {"getGalleryApi", "getExtension", "awaiting", "returned"}

\* C25: a getExtensionMetadata call whose marketplace fetch fails does not
\* throw, it returns metadata without repositoryUrl and that metadata is
\* cached under the call's key; no key ever leaves the cache, and a call made
\* when the cache has its key returns the cached metadata without a query to
\* the marketplace
C25_FailedFetchIsCached ==
    /\ [][FailureIsCached /\ CachedIsReturned]_vars
    /\ [][DOMAIN extensionMetadataCache \subseteq DOMAIN extensionMetadataCache']_vars
    /\ []CallsReturn

\* the fetch for p.e1 failed at getExtension; the next call for p.e1 got
\* the cached metadata, and the marketplace was asked once
C25_Witness ==
    /\ metaCalls = <<MetaCall("get", 0, "p", "e1", "returned",
                              ExtensionMetadata("p", "e1", undefined), "failed"),
                     MetaCall("get", 0, "p", "e1", "returned",
                              ExtensionMetadata("p", "e1", undefined), "cached")>>
    /\ marketplaceLog = <<"p.e1">>
    /\ extensionMetadataCache = CacheSet(EmptyMap, "p.e1", ExtensionMetadata("p", "e1", undefined))

\* C30: on one client, whatever the interleaving of the calls, the
\* marketplace is asked at most once for each publisher.extension key
C30_Counterexample ==
    \A n, m \in DOMAIN marketplaceLog : marketplaceLog[n] = marketplaceLog[m] => n = m

----------------------------------------------------------------------------
(* Properties of the resolution of canonical identifiers *)

\* the catalog entries whose canonical identifier is the given identifier,
\* letter case apart
CanonicalMatches(identifier) ==
    {e \in Elems(MapValues(taskMap)) :
        ToLowerCase(e.fullIdentifier) = ToLowerCase(identifier)}

\* C27: a reference whose identifier is, letter case apart, the canonical
\* identifier of a catalog entry gets a direct package URL that carries that
\* canonical identifier, in every catalog
C27_Counterexample ==
    mpc = "mapped" =>
        \A i \in DOMAIN tasksIn :
            CanonicalMatches(tasksIn[i].taskIdentifier) # {} =>
                \E e \in CanonicalMatches(tasksIn[i].taskIdentifier) :
                    DirectUrlWith(tasksIn[i], e)
                        \in DirectUrls(ResolvedOf(SourceFileOf(tasksIn[i], ManifestPath)))

----------------------------------------------------------------------------
(* Properties of the entries of one manifest *)

\* the package URL of the concrete version that the mapper synthesizes for a
\* wildcarded reference
SynthesizedUrl(w) ==
    PackageUrl(resolveTask(w.taskIdentifier).fullIdentifier,
               ActualVersion(resolveTaskByMajor(w.taskIdentifier, MajorOf(w)),
                             resolveTask(w.taskIdentifier)))

\* t names a full version of a task, or none, and w is a wildcarded
\* reference to the same task for which the version of t is synthesized
FullAndWildcard(t, w) ==
    /\ Resolves(t) /\ Resolves(w)
    /\ ~Wildcarded(t) /\ Wildcarded(w)
    /\ resolveTask(t.taskIdentifier).fullIdentifier
           = resolveTask(w.taskIdentifier).fullIdentifier
    /\ SynthesizedUrl(w) = DirectUrl(t)

\* in manifest m the entry of t is direct and the entry of w lists it
DirectAndListed(m, t, w) ==
    /\ MapHas(m, DirectUrl(t))
    /\ MapGet(m, DirectUrl(t)).relationship = "direct"
    /\ MapHas(m, DirectUrl(w))
    /\ HasDependencies(MapGet(m, DirectUrl(w)))
    /\ DirectUrl(t) \in Elems(MapGet(m, DirectUrl(w)).dependencies)

\* C28: when a manifest receives a reference with a full version V of a task
\* (or without a version, V being the installed one) and a wildcarded
\* reference to the same task whose synthesized concrete version is V, the
\* entry of V is direct and the wildcard entry lists V's package URL, in
\* either order of the two references
C28_FullVersionStaysDirect ==
    mpc = "mapped" =>
        \A f \in SourceFiles :
            \A t, w \in Elems(RefsOf(f)) :
                FullAndWildcard(t, w) => DirectAndListed(ResolvedOf(f), t, w)

\* PowerShell@1 before PowerShell@1.10.0, with 1.10.0 installed: the entry
\* synthesized as indirect for the first has become direct with the second
C28_Witness ==
    /\ mpc = "mapped"
    /\ tasksIn = <<TaskRef("PowerShell", "1", undefined),
                   TaskRef("PowerShell", "1.10.0", undefined)>>
    /\ FullAndWildcard(tasksIn[2], tasksIn[1])
    /\ MapGet(ResolvedOf(ManifestPath),
              "pkg:generic/azure-pipelines/Microsoft.BuiltIn.PowerShell@1.10.0").relationship
           = "direct"
    /\ MapGet(ResolvedOf(ManifestPath),
              "pkg:generic/azure-pipelines/Microsoft.BuiltIn.PowerShell@1.*.*").dependencies
           = <<"pkg:generic/azure-pipelines/Microsoft.BuiltIn.PowerShell@1.10.0">>

\* the entries of the manifest called name, as a Map from package URL
ResolvedIn(name) == MapGet(Manifests, name).resolved

\* the keys of m are distinct, each entry is kept under its own package URL,
\* and what an entry lists as dependencies are keys of m
KeyedByPackageUrl(m) ==
    /\ \A i, j \in DOMAIN m.keys : m.keys[i] = m.keys[j] => i = j
    /\ \A k \in Elems(m.keys) :
           /\ MapGet(m, k).package_url = k
           /\ HasDependencies(MapGet(m, k)) =>
                  \A n \in DOMAIN MapGet(m, k).dependencies :
                      MapHas(m, MapGet(m, k).dependencies[n])

\* C29: in every manifest that createSnapshot produces, each key of resolved
\* is the package_url of its entry, and every package URL in the dependencies
\* of an entry is a key of the same manifest's resolved
C29_ManifestIsClosed ==
    mpc = "mapped" =>
        \A name \in Elems(Manifests.keys) : KeyedByPackageUrl(ResolvedIn(name))

\* two manifests, each with a wildcard entry and the entry it lists
C29_Witness ==
    /\ mpc = "mapped"
    /\ tasksIn = <<TaskRef("PowerShell", "1", "a.yml"),
                   TaskRef("pub.ext.contrib", "1", undefined)>>
    /\ Len(Manifests.keys) = 2
    /\ \A name \in Elems(Manifests.keys) :
           /\ Len(ResolvedIn(name).keys) = 2
           /\ \E k \in Elems(ResolvedIn(name).keys) :
                  HasDependencies(MapGet(ResolvedIn(name), k))

====
